---- MODULE Spec2Model ----
(***************************************************************************)
(* Model of the Info plane of the Aerospike server: as/src/base/thr_info.c *)
(* (worker pool, dispatcher, config-set, sindex commands, statistics) and  *)
(* as/src/base/ticker.c (ticker lines).                                    *)
(*                                                                         *)
(* The module holds several specifications over one set of variables; each *)
(* specification moves one part of the program and leaves the rest alone.  *)
(***************************************************************************)
EXTENDS Integers, Sequences, FiniteSets, TLC

(***************************************************************************)
(* Bounds of the model.                                                    *)
(***************************************************************************)
\* Info transactions the listener hands to as_info() in one behaviour.
MaxRequests == 2

\* Upper limit of info-threads accepted by config-set (thr_info.c:2438).
MAX_INFO_THREADS == 3

VARIABLES
    \* ---- worker pool (thr_info_fn, as_info, info_set_num_info_threads)
    g_info_work_q,      \* queue of transactions; 0 is the NULL-fd_h terminator
    n_idle,             \* worker threads blocked in cf_queue_pop
    n_info_threads,     \* g_config.n_info_threads
    pc,                 \* position of the worker holding each transaction
    proto,              \* request carried by each transaction
    fd_state,           \* what happened to each transaction's connection
    info_complete,      \* g_stats.info_complete
    reply,              \* value a command handler appended to the reply
    info_threads_log,   \* last "Changing value of info-threads from %u to %d"
    \* ---- config-set
    g_set_cfg_lock,     \* 0 when free, else the transaction whose worker holds it
    storage_max_write_cache,  \* ns->storage_max_write_cache
    storage_max_write_q,      \* ns->storage_max_write_q
    device_count,             \* as_namespace_device_count(ns)
    rd,                       \* lock-free reader of the namespace pair
    info_hist_enabled,  \* g_config.info_hist_enabled
    info_hist,          \* g_stats.info_hist: the transactions recorded in it
    hist_epoch,         \* number of disabled-to-enabled transitions so far
    seen_epoch,         \* hist_epoch when a transaction's worker read the flag
    \* ---- sindex SMD module and the workers running sindex commands
    smd_items,          \* the module's items, in the order as_smd_get_all visits
    sx,                 \* per worker: the sindex command it runs and where it is
    \* ---- connection counters and their observers
    conns_opened,       \* g_stats.<class>_connections_opened
    conns_closed,       \* g_stats.<class>_connections_closed
    obs,                \* the thread in info_get_stats or log_line_fds
    \* ---- dispatcher (info_all, info_some) on one request
    static_head, dynamic_head, tree_head, command_head,  \* the registry lists
    req,                \* the request: body, auth result, per-command security
    c, tok,             \* info_some's cursor and token start (1-based)
    db,                 \* the reply body being assembled
    calls,              \* handler invocations, in order
    dpc,                \* position of the worker in the dispatcher
    hdr,                \* the 8 bytes reserved in front of the reply body
    out_sz,             \* bytes a handler output or static value occupies
    \* ---- config-set memory-size on one namespace
    memory_size,        \* ns->memory_size
    ms,                 \* the config-set memory-size call and where it is
    \* ---- as_info_parameter_get
    pg,                 \* one call: its arguments and what it left behind
    \* ---- registration calls (as_info_set_buf, _dynamic, _tree, _command)
    registered,         \* per list and name: the value or function last passed
    \* ---- config-set / config-get of the service context
    ticker_interval,    \* g_config.ticker_interval
    tk,                 \* the client's config-set / config-get exchange
    \* ---- cluster-stable
    cluster,            \* exchange and partition-balance state the command reads
    cs,                 \* the cluster-stable call and where it is
    \* ---- quiesce / quiesce-undo
    pending_quiesce,    \* ns->pending_quiesce of each namespace
    qcfg,               \* the edition and g_config.stay_quiesced
    qc,                 \* the quiesce or quiesce-undo call and where it is
    \* ---- tip
    tip,                \* the tip call - what was sent and what came of it
    hb_mesh_seeds,      \* the mesh seeds the heartbeat subsystem has recorded
    \* ---- ticker thread (run_ticker, log_ticker_frame, log_fabric_rate)
    ticker,             \* the ticker thread - where it is and its local times
    clock_ns,           \* cf_getns()
    g_shutdown_started, \* the shutdown flag
    fabric_rate_stats,  \* g_stats.fabric_<channel>_<s|r>_rate
    ticker_lines,       \* lines the ticker has written to the log
    \* ---- config-set, namespace context
    default_ttl,        \* ns->default_ttl of each namespace
    nsup_period,        \* ns->nsup_period
    allow_ttl_without_nsup, \* ns->allow_ttl_without_nsup
    ns_sets,            \* the sets of each namespace and their eviction_disabled flag
    nc,                 \* the last config-set of the namespace context and its reply
    \* ---- the statistics behind the ticker lines
    g_stats,            \* the node-wide counters the ticker reads
    ns_stats,           \* the counters and storage settings of each namespace
    ns_lines            \* the namespace lines of the latest frame

poolVars == <<g_info_work_q, n_idle, n_info_threads, pc, proto, fd_state,
              info_complete, reply, info_threads_log, g_set_cfg_lock>>
cacheVars == <<storage_max_write_cache, storage_max_write_q, device_count, rd>>
histVars == <<info_hist_enabled, info_hist, hist_epoch, seen_epoch>>
smdVars == <<smd_items, sx>>
fdsVars == <<conns_opened, conns_closed, obs>>
registryVars == <<static_head, dynamic_head, tree_head, command_head, out_sz>>
dispVars == <<registryVars, req, c, tok, db, calls, dpc, hdr>>
workerVars == <<poolVars, cacheVars, histVars>>
memVars == <<memory_size, ms>>
paramVars == <<pg>>
regVars == <<registered>>
tickVars == <<ticker_interval, tk>>
clusterVars == <<cluster, cs>>
quiesceVars == <<pending_quiesce, qcfg, qc>>
tipVars == <<tip, hb_mesh_seeds>>
tickerThreadVars == <<ticker, clock_ns, g_shutdown_started, fabric_rate_stats, ticker_lines>>
nsCfgVars == <<default_ttl, nsup_period, allow_ttl_without_nsup, ns_sets, nc>>
nsStatsVars == <<g_stats, ns_stats, ns_lines>>
svcVars == <<memVars, paramVars, regVars, tickVars, clusterVars,
             quiesceVars, tipVars, tickerThreadVars, nsCfgVars, nsStatsVars>>
nonWorkerVars == <<smdVars, fdsVars, dispVars, svcVars>>

vars == <<poolVars, cacheVars, histVars, nonWorkerVars>>

Reqs == 1..MaxRequests

NULL == 0

\* The sequences over S of length at most n.
RECURSIVE SeqsUpTo(_, _)
SeqsUpTo(S, n) ==
    IF n = 0 THEN {<<>>}
    ELSE LET shorter == SeqsUpTo(S, n - 1)
         IN shorter \cup {Append(s, x) : s \in {t \in shorter : Len(t) = n - 1}, x \in S}

(***************************************************************************)
(* Character strings are sequences of one-character strings, so that the   *)
(* prefix comparisons of the code (strncmp) are computed, not assumed.     *)
(***************************************************************************)
S_true == <<"t", "r", "u", "e">>
S_yes == <<"y", "e", "s">>
S_false == <<"f", "a", "l", "s", "e">>
S_no == <<"n", "o">>
S_nope == <<"n", "o", "p", "e">>
S_maybe == <<"m", "a", "y", "b", "e">>

\* strncmp(s, lit, n) == 0 where n = strlen(lit)
strncmp_eq(s, lit) ==
    /\ Len(s) >= Len(lit)
    /\ SubSeq(s, 1, Len(lit)) = lit

(***************************************************************************)
(* Requests.  A transaction carries either a lookup line or one config-set *)
(* command; n is the command's integer value, s its text value.            *)
(***************************************************************************)
Proto(cmd, isint, n, s) == [cmd |-> cmd, isint |-> isint, n |-> n, s |-> s]

NoProto == Proto("none", FALSE, 0, <<>>)

LookupProtos == {Proto("lookup", FALSE, 0, <<>>)}

\* config-set:context=service;info-threads=<n>
InfoThreadsProtos ==
    {Proto("info-threads", TRUE, n, <<>>) : n \in 0..(MAX_INFO_THREADS + 1)}
        \cup {Proto("info-threads", FALSE, 0, <<>>)}

ExtremeInfoThreadsProtos ==
    {Proto("info-threads", TRUE, n, <<>>) : n \in {0, 1, MAX_INFO_THREADS}}

DEFAULT_MAX_WRITE_CACHE == 64 * 1024 * 1024

storage_write_block_size == 1024 * 1024

\* config-set:context=namespace;id=<ns>;max-write-cache=<n>
MaxWriteCacheProtos ==
    {Proto("max-write-cache", TRUE, n, <<>>) :
        n \in {DEFAULT_MAX_WRITE_CACHE \div 2, DEFAULT_MAX_WRITE_CACHE,
               2 * DEFAULT_MAX_WRITE_CACHE}}

\* config-set:context=service;enable-hist-info=<s>
HistInfoProtos ==
    {Proto("enable-hist-info", FALSE, 0, s) :
        s \in {S_true, S_yes, S_false, S_no, S_nope, S_maybe}}

(***************************************************************************)
(* thr_info_fn, as_info: the worker pool.  A worker blocked in             *)
(* cf_queue_pop holds no data, so those workers are counted (n_idle); a    *)
(* worker that popped a transaction is identified by it (pc[r]).           *)
(***************************************************************************)
InHandler ==
    {"cfg_lock", "shrink_push", "shrink_dec", "grow_create", "grow_inc",
     "mwc_cache", "mwc_q", "hist_on_clear", "hist_on_flag", "hist_off_flag",
     "hist_off_clear", "cfg_ok", "cfg_error"}

Working == InHandler \cup {"send", "hist_flag", "hist_insert"}

\* Worker threads that exist: blocked in the pop, or holding a transaction.
LiveWorkers == n_idle + Cardinality({r \in Reqs : pc[r] \in Working})

Terminators == Cardinality({i \in DOMAIN g_info_work_q : g_info_work_q[i] = NULL})

\* as_info(): the listener queues a transaction.
Submit(r, p) ==
    /\ pc[r] = "unsent"
    /\ \A q \in Reqs : q < r => pc[q] # "unsent"
    /\ g_info_work_q' = Append(g_info_work_q, r)
    /\ proto' = [proto EXCEPT ![r] = p]
    /\ pc' = [pc EXCEPT ![r] = "queued"]
    /\ UNCHANGED <<n_idle, n_info_threads, fd_state, info_complete, reply,
                   info_threads_log, g_set_cfg_lock, cacheVars, histVars, nonWorkerVars>>

\* A worker that pops the terminator and goes back to the pop.
PopTerminator_StaysOn ==
    /\ n_idle > 0
    /\ g_info_work_q # <<>>
    /\ Head(g_info_work_q) = NULL
    /\ g_info_work_q' = Tail(g_info_work_q)
    /\ UNCHANGED <<n_idle, n_info_threads, pc, proto, fd_state, info_complete, reply,
                   info_threads_log, g_set_cfg_lock, cacheVars, histVars, nonWorkerVars>>

\* thr_info_fn: a worker pops the terminator (fd_h == NULL) and exits.
PopTerminator ==
    /\ n_idle > 0
    /\ g_info_work_q # <<>>
    /\ Head(g_info_work_q) = NULL
    /\ g_info_work_q' = Tail(g_info_work_q)
    /\ n_idle' = n_idle - 1
    /\ UNCHANGED <<n_info_threads, pc, proto, fd_state, info_complete, reply,
                   info_threads_log, g_set_cfg_lock, cacheVars, histVars, nonWorkerVars>>

\* info_some: a lookup line is answered at once; a config-set line calls
\* info_command_config_set.
Dispatched(p) == IF p.cmd = "lookup" THEN "send" ELSE "cfg_lock"

\* A pop that leaves the transaction at the head of the queue.
PopRequest_Peek(r) ==
    /\ n_idle > 0
    /\ g_info_work_q # <<>>
    /\ Head(g_info_work_q) = r
    /\ r # NULL
    /\ pc[r] = "queued"
    /\ n_idle' = n_idle - 1
    /\ pc' = [pc EXCEPT ![r] = Dispatched(proto[r])]
    /\ UNCHANGED <<g_info_work_q, n_info_threads, proto, fd_state, info_complete, reply,
                   info_threads_log, g_set_cfg_lock, cacheVars, histVars, nonWorkerVars>>

\* thr_info_fn: a worker pops a transaction and runs info_some on it.
PopRequest(r) ==
    /\ n_idle > 0
    /\ g_info_work_q # <<>>
    /\ Head(g_info_work_q) = r
    /\ r # NULL
    /\ g_info_work_q' = Tail(g_info_work_q)
    /\ n_idle' = n_idle - 1
    /\ pc' = [pc EXCEPT ![r] = Dispatched(proto[r])]
    /\ UNCHANGED <<n_info_threads, proto, fd_state, info_complete, reply,
                   info_threads_log, g_set_cfg_lock, cacheVars, histVars, nonWorkerVars>>

(***************************************************************************)
(* info_command_config_set and info_command_config_set_threadsafe.         *)
(***************************************************************************)
InfoThreadsValid_AllowZero(p) == p.isint /\ p.n >= 0 /\ p.n <= MAX_INFO_THREADS

\* The range check on info-threads.
InfoThreadsValid(p) == p.isint /\ p.n >= 1 /\ p.n <= MAX_INFO_THREADS

\* The floor on max-write-cache.
MaxWriteCacheValid(p) == p.isint /\ p.n >= DEFAULT_MAX_WRITE_CACHE

IsTrue(s) == strncmp_eq(s, S_true) \/ strncmp_eq(s, S_yes)

IsFalse(s) == strncmp_eq(s, S_false) \/ strncmp_eq(s, S_no)

\* Where info_command_config_set_threadsafe goes for a command, once the
\* value is parsed and validated.
CfgEntry(p) ==
    CASE p.cmd = "info-threads" ->
            IF ~InfoThreadsValid(p) THEN "cfg_error"
            ELSE IF n_info_threads > p.n THEN "shrink_push"
            ELSE IF n_info_threads < p.n THEN "grow_create"
            ELSE "cfg_ok"
      [] p.cmd = "max-write-cache" ->
            IF MaxWriteCacheValid(p) THEN "mwc_cache" ELSE "cfg_error"
      [] p.cmd = "enable-hist-info" ->
            IF IsTrue(p.s) THEN "hist_on_clear"
            ELSE IF IsFalse(p.s) THEN "hist_off_flag"
            ELSE "cfg_error"
      [] OTHER -> "cfg_error"

\* cf_info("Changing value of info-threads from %u to %d ", ...)
InfoThreadsLog(p) ==
    IF p.cmd = "info-threads" /\ InfoThreadsValid(p)
    THEN [from |-> n_info_threads, to |-> p.n]
    ELSE info_threads_log

LockAlwaysFree(r) == TRUE

\* cf_mutex_lock(&g_set_cfg_lock)
LockFree(r) == g_set_cfg_lock = NULL

CfgLock(r) ==
    /\ pc[r] = "cfg_lock"
    /\ LockFree(r)
    /\ g_set_cfg_lock' = r
    /\ pc' = [pc EXCEPT ![r] = CfgEntry(proto[r])]
    /\ info_threads_log' = InfoThreadsLog(proto[r])
    /\ UNCHANGED <<g_info_work_q, n_idle, n_info_threads, proto, fd_state,
                   info_complete, reply, cacheVars, histVars, nonWorkerVars>>

\* The handler appends "ok" or "error" and cf_mutex_unlock(&g_set_cfg_lock).
CfgUnlock(r) ==
    /\ pc[r] \in {"cfg_ok", "cfg_error"}
    /\ reply' = [reply EXCEPT ![r] = IF pc[r] = "cfg_ok" THEN "ok" ELSE "error"]
    /\ g_set_cfg_lock' = NULL
    /\ pc' = [pc EXCEPT ![r] = "send"]
    /\ UNCHANGED <<g_info_work_q, n_idle, n_info_threads, proto, fd_state,
                   info_complete, info_threads_log, cacheVars, histVars,
                   nonWorkerVars>>

(***************************************************************************)
(* info_set_num_info_threads                                               *)
(***************************************************************************)
NoTerminator(q) == q

\* Two terminators for each worker to remove.
PushTerminator_Twice(q) == Append(Append(q, NULL), NULL)

\* as_info(&death_msg)
PushTerminator(q) == Append(q, NULL)

ShrinkPush(r) ==
    /\ pc[r] = "shrink_push"
    /\ g_info_work_q' = PushTerminator(g_info_work_q)
    /\ pc' = [pc EXCEPT ![r] = "shrink_dec"]
    /\ UNCHANGED <<n_idle, n_info_threads, proto, fd_state, info_complete,
                   reply, info_threads_log, g_set_cfg_lock, cacheVars, histVars, nonWorkerVars>>

\* g_config.n_info_threads--, then the loop test.
ShrinkDec(r) ==
    /\ pc[r] = "shrink_dec"
    /\ n_info_threads' = n_info_threads - 1
    /\ pc' = [pc EXCEPT ![r] =
                IF n_info_threads' > proto[r].n THEN "shrink_push" ELSE "cfg_ok"]
    /\ UNCHANGED <<g_info_work_q, n_idle, proto, fd_state, info_complete,
                   reply, info_threads_log, g_set_cfg_lock, cacheVars, histVars, nonWorkerVars>>

\* cf_thread_create_transient(thr_info_fn, NULL)
GrowCreate(r) ==
    /\ pc[r] = "grow_create"
    /\ n_idle' = n_idle + 1
    /\ pc' = [pc EXCEPT ![r] = "grow_inc"]
    /\ UNCHANGED <<g_info_work_q, n_info_threads, proto, fd_state,
                   info_complete, reply, info_threads_log, g_set_cfg_lock, cacheVars, histVars, nonWorkerVars>>

\* g_config.n_info_threads++, then the loop test.
GrowInc(r) ==
    /\ pc[r] = "grow_inc"
    /\ n_info_threads' = n_info_threads + 1
    /\ pc' = [pc EXCEPT ![r] =
                IF n_info_threads' < proto[r].n THEN "grow_create" ELSE "cfg_ok"]
    /\ UNCHANGED <<g_info_work_q, n_idle, proto, fd_state, info_complete,
                   reply, info_threads_log, g_set_cfg_lock, cacheVars, histVars, nonWorkerVars>>

(***************************************************************************)
(* config-set max-write-cache (namespace context) and a lock-free reader   *)
(* of the pair it writes.                                                  *)
(***************************************************************************)
\* The derived queue length for a max-write-cache value.
MaxWriteQ(cache) == (device_count * cache) \div storage_write_block_size

\* ns->storage_max_write_cache = val_u64
MwcStoreCache(r) ==
    /\ pc[r] = "mwc_cache"
    /\ storage_max_write_cache' = proto[r].n
    /\ pc' = [pc EXCEPT ![r] = "mwc_q"]
    /\ UNCHANGED <<g_info_work_q, n_idle, n_info_threads, proto, fd_state,
                   info_complete, reply, info_threads_log, g_set_cfg_lock, storage_max_write_q,
                   device_count, rd, histVars, nonWorkerVars>>

\* ns->storage_max_write_q = device_count * max_write_cache / write_block_size
MwcStoreQ(r) ==
    /\ pc[r] = "mwc_q"
    /\ storage_max_write_q' = MaxWriteQ(storage_max_write_cache)
    /\ pc' = [pc EXCEPT ![r] = "cfg_ok"]
    /\ UNCHANGED <<g_info_work_q, n_idle, n_info_threads, proto, fd_state,
                   info_complete, reply, info_threads_log, g_set_cfg_lock, storage_max_write_cache,
                   device_count, rd, histVars, nonWorkerVars>>

RdIdle == [pc |-> "idle", cache |-> 0, q |-> 0]

\* A reader loads one field of the pair ...
RdFirst ==
    /\ rd.pc \in {"idle", "done"}
    /\ \/ rd' = [pc |-> "cache_read", cache |-> storage_max_write_cache, q |-> 0]
       \/ rd' = [pc |-> "q_read", cache |-> 0, q |-> storage_max_write_q]
    /\ UNCHANGED <<poolVars, storage_max_write_cache, storage_max_write_q,
                   device_count, histVars, nonWorkerVars>>

\* ... and then the other.
RdSecond ==
    /\ rd.pc \in {"cache_read", "q_read"}
    /\ rd' = IF rd.pc = "cache_read"
             THEN [rd EXCEPT !.pc = "done", !.q = storage_max_write_q]
             ELSE [rd EXCEPT !.pc = "done", !.cache = storage_max_write_cache]
    /\ UNCHANGED <<poolVars, storage_max_write_cache, storage_max_write_q,
                   device_count, histVars, nonWorkerVars>>

(***************************************************************************)
(* config-set enable-hist-info (service context).                          *)
(***************************************************************************)
\* if (! g_config.info_hist_enabled) histogram_clear(g_stats.info_hist)
HistOnClear(r) ==
    /\ pc[r] = "hist_on_clear"
    /\ info_hist' = IF ~info_hist_enabled THEN {} ELSE info_hist
    /\ pc' = [pc EXCEPT ![r] = "hist_on_flag"]
    /\ UNCHANGED <<g_info_work_q, n_idle, n_info_threads, proto, fd_state,
                   info_complete, reply, info_threads_log, g_set_cfg_lock, cacheVars,
                   info_hist_enabled, hist_epoch, seen_epoch, nonWorkerVars>>

\* g_config.info_hist_enabled = true
HistOnFlag(r) ==
    /\ pc[r] = "hist_on_flag"
    /\ info_hist_enabled' = TRUE
    /\ hist_epoch' = IF info_hist_enabled THEN hist_epoch ELSE hist_epoch + 1
    /\ pc' = [pc EXCEPT ![r] = "cfg_ok"]
    /\ UNCHANGED <<g_info_work_q, n_idle, n_info_threads, proto, fd_state,
                   info_complete, reply, info_threads_log, g_set_cfg_lock, cacheVars, info_hist,
                   seen_epoch, nonWorkerVars>>

\* g_config.info_hist_enabled = false
HistOffFlag(r) ==
    /\ pc[r] = "hist_off_flag"
    /\ info_hist_enabled' = FALSE
    /\ pc' = [pc EXCEPT ![r] = "hist_off_clear"]
    /\ UNCHANGED <<g_info_work_q, n_idle, n_info_threads, proto, fd_state,
                   info_complete, reply, info_threads_log, g_set_cfg_lock, cacheVars, info_hist,
                   hist_epoch, seen_epoch, nonWorkerVars>>

\* histogram_clear(g_stats.info_hist)
HistOffClear(r) ==
    /\ pc[r] = "hist_off_clear"
    /\ info_hist' = {}
    /\ pc' = [pc EXCEPT ![r] = "cfg_ok"]
    /\ UNCHANGED <<g_info_work_q, n_idle, n_info_threads, proto, fd_state,
                   info_complete, reply, info_threads_log, g_set_cfg_lock, cacheVars,
                   info_hist_enabled, hist_epoch, seen_epoch, nonWorkerVars>>

(***************************************************************************)
(* thr_info_fn, after the reply is assembled.                              *)
(***************************************************************************)
\* A connection a worker has not released: the send has not failed and
\* neither release call was made.
InUse == [send_failed |-> FALSE, force_closed |-> FALSE, returned |-> FALSE]

\* A handle that stays set after the forced close.
FdAfterForceClose_Kept(fd_h) == fd_h

\* fd_h = NULL, after as_end_of_transaction_force_close(fd_h).
FdAfterForceClose(fd_h) == NULL

\* What becomes of the connection fd_h: as_end_of_transaction_force_close
\* when cf_socket_send_all failed, and as_end_of_transaction_ok when fd_h is
\* still set after that.
Disposition(fd_h, sent) ==
    LET after_send == IF sent THEN fd_h ELSE FdAfterForceClose(fd_h)
    IN [send_failed |-> ~sent, force_closed |-> ~sent, returned |-> after_send # NULL]

\* cf_socket_send_all, the connection's release, cf_free(pr).
Send(r) ==
    /\ pc[r] = "send"
    /\ \E sent \in BOOLEAN : fd_state' = [fd_state EXCEPT ![r] = Disposition(r, sent)]
    /\ proto' = [proto EXCEPT ![r] = NoProto]
    /\ pc' = [pc EXCEPT ![r] = "hist_flag"]
    /\ UNCHANGED <<g_info_work_q, n_idle, n_info_threads, info_complete,
                   reply, info_threads_log, g_set_cfg_lock, cacheVars, histVars, nonWorkerVars>>

\* G_HIST_INSERT_DATA_POINT(info_hist, ...): the recorder reads the flag; when
\* it is off the worker goes on to count the transaction and pops again.
HistFlag(r) ==
    /\ pc[r] = "hist_flag"
    /\ IF info_hist_enabled
       THEN /\ pc' = [pc EXCEPT ![r] = "hist_insert"]
            /\ seen_epoch' = [seen_epoch EXCEPT ![r] = hist_epoch]
            /\ UNCHANGED <<n_idle, info_complete>>
       ELSE /\ pc' = [pc EXCEPT ![r] = "done"]
            /\ info_complete' = info_complete + 1
            /\ n_idle' = n_idle + 1
            /\ UNCHANGED seen_epoch
    /\ UNCHANGED <<g_info_work_q, n_info_threads, proto, fd_state, reply,
                   info_threads_log, g_set_cfg_lock, cacheVars, info_hist_enabled, info_hist,
                   hist_epoch, nonWorkerVars>>

\* ... and inserts the data point; cf_atomic64_incr(&g_stats.info_complete).
HistInsert(r) ==
    /\ pc[r] = "hist_insert"
    /\ info_hist' = info_hist \cup {r}
    /\ pc' = [pc EXCEPT ![r] = "done"]
    /\ info_complete' = info_complete + 1
    /\ n_idle' = n_idle + 1
    /\ UNCHANGED <<g_info_work_q, n_info_threads, proto, fd_state, reply,
                   info_threads_log, g_set_cfg_lock, cacheVars, info_hist_enabled, hist_epoch,
                   seen_epoch, nonWorkerVars>>

(***************************************************************************)
(* Secondary-index definitions in the sindex SMD module.                   *)
(* Strings are sequences of characters; the empty sequence stands for a    *)
(* NULL pointer where the code uses one (real names and keys are never     *)
(* empty).                                                                 *)
(***************************************************************************)
MaxSxWorkers == 2
SxWorkers == 1..MaxSxWorkers

\* Stand-in for the per-namespace limit on sindex definitions.
MAX_N_SINDEXES == 2
AS_BIN_NAME_MAX_SZ == 16

NULLSTR == <<>>
N_i == <<"i">>
N_j == <<"j">>
NS_a == <<"a">>
NS_ab == <<"a", "b">>
B_x == <<"x">>
S_numeric == <<"n", "u", "m", "e", "r", "i", "c">>
S_string == <<"s", "t", "r", "i", "n", "g">>
S_geo2dsphere == <<"g", "e", "o", "2", "d", "s", "p", "h", "e", "r", "e">>
S_default == <<"d", "e", "f", "a", "u", "l", "t">>
S_list == <<"l", "i", "s", "t">>
S_mapkeys == <<"m", "a", "p", "k", "e", "y", "s">>
S_mapvalues == <<"m", "a", "p", "v", "a", "l", "u", "e", "s">>
S_bogus == <<"z", "z">>
S_ctx == <<"k", "w", "=", "=">>

\* strchr: index of the first occurrence of ch in s, 0 when there is none.
RECURSIVE strchr_from(_, _, _)
strchr_from(s, ch, i) ==
    IF i > Len(s) THEN 0
    ELSE IF s[i] = ch THEN i
    ELSE strchr_from(s, ch, i + 1)

strchr(s, ch) == strchr_from(s, ch, 1)

\* Result of as_info_parameter_get for one parameter: rv 0 with the value,
\* -1 when the parameter is absent, -2 when the value does not fit.
ParamFound(v) == [rv |-> 0, val |-> v]
ParamAbsent == [rv |-> -1, val |-> NULLSTR]
ParamTooLong == [rv |-> -2, val |-> NULLSTR]

\* as_sindex_itype_from_string / as_sindex_ktype_from_string, as single
\* characters of the composed key; "?" is the bad-type result.
as_sindex_itype_from_string(s) ==
    CASE s = S_default -> "."
      [] s = S_list -> "L"
      [] s = S_mapkeys -> "K"
      [] s = S_mapvalues -> "V"
      [] OTHER -> "?"

as_sindex_ktype_from_string(s) ==
    CASE s = S_numeric -> "N"
      [] s = S_string -> "S"
      [] s = S_geo2dsphere -> "G"
      [] OTHER -> "?"

\* "<namespace>|<set>|<bin>|<context-b64-or-empty>|<itype>|<ktype>"
as_sindex_build_smd_key(ns, set, bin, ctx, itype, ktype) ==
    ns \o <<"|">> \o set \o <<"|">> \o bin \o <<"|">> \o ctx \o <<"|">>
       \o <<itype>> \o <<"|">> \o <<ktype>>

\* A sindex-create command after parameter extraction. ctx_sz is what
\* as_sindex_cdt_ctx_b64_decode returns for the context value.
CreateCmd(iname, ns, set, ctx, ctx_sz, itype, idata) ==
    [op |-> "create", indexname |-> iname, ns |-> ns, set |-> set,
     context |-> ctx, ctx_sz |-> ctx_sz, indextype |-> itype,
     indexdata |-> idata]

DeleteCmd(iname, ns) ==
    [op |-> "delete", indexname |-> iname, ns |-> ns, set |-> ParamAbsent,
     context |-> ParamAbsent, ctx_sz |-> 0, indextype |-> ParamAbsent,
     indexdata |-> ParamAbsent]

IndexData(bin, type) == ParamFound(bin \o <<",">> \o type)

\* Well-formed creates: two namespaces (one a prefix of the other), two
\* index names, three key types in namespace "a" and one in "ab".
GoodCreateCmds ==
    { CreateCmd(ParamFound(n), ParamFound(NS_a), ParamAbsent, ParamAbsent, 0,
                ParamAbsent, IndexData(B_x, t)) :
          n \in {N_i, N_j}, t \in {S_numeric, S_string, S_geo2dsphere} }
    \cup
    { CreateCmd(ParamFound(n), ParamFound(NS_ab), ParamAbsent, ParamAbsent, 0,
                ParamAbsent, IndexData(B_x, S_numeric)) : n \in {N_i, N_j} }

GoodCreate == CreateCmd(ParamFound(N_i), ParamFound(NS_a), ParamAbsent, ParamAbsent,
                        0, ParamAbsent, IndexData(B_x, S_numeric))

\* Creates that fail parameter validation, one fault each, and two
\* well-formed ones with a set, a context and an explicit index type.
OddCreateCmds ==
    { [GoodCreate EXCEPT !.indexname = ParamAbsent],
      [GoodCreate EXCEPT !.indexname = ParamFound(NULLSTR)],
      [GoodCreate EXCEPT !.indexname = ParamTooLong],
      [GoodCreate EXCEPT !.ns = ParamAbsent],
      [GoodCreate EXCEPT !.ns = ParamTooLong],
      [GoodCreate EXCEPT !.set = ParamFound(NULLSTR)],
      [GoodCreate EXCEPT !.set = ParamTooLong],
      [GoodCreate EXCEPT !.context = ParamFound(S_ctx), !.ctx_sz = -1],
      [GoodCreate EXCEPT !.context = ParamFound(S_ctx), !.ctx_sz = -2],
      [GoodCreate EXCEPT !.context = ParamFound(S_ctx), !.ctx_sz = -3],
      [GoodCreate EXCEPT !.context = ParamTooLong],
      [GoodCreate EXCEPT !.indextype = ParamTooLong],
      [GoodCreate EXCEPT !.indextype = ParamFound(S_bogus)],
      [GoodCreate EXCEPT !.indexdata = ParamAbsent],
      [GoodCreate EXCEPT !.indexdata = ParamTooLong],
      [GoodCreate EXCEPT !.indexdata = ParamFound(B_x)],
      [GoodCreate EXCEPT !.indexdata = IndexData(NULLSTR, S_numeric)],
      [GoodCreate EXCEPT !.indexdata =
           IndexData([k \in 1..AS_BIN_NAME_MAX_SZ |-> "x"], S_numeric)],
      [GoodCreate EXCEPT !.indexdata = IndexData(B_x, S_bogus)],
      [GoodCreate EXCEPT !.set = ParamFound(<<"s">>), !.context = ParamFound(S_ctx),
                         !.ctx_sz = 3, !.indextype = ParamFound(S_list)] }

DeleteCmds ==
    { DeleteCmd(ParamFound(n), ParamFound(ns)) : n \in {N_i, N_j}, ns \in {NS_a, NS_ab} }
    \cup { DeleteCmd(ParamAbsent, ParamFound(NS_a)), DeleteCmd(ParamTooLong, ParamFound(NS_a)),
           DeleteCmd(ParamFound(N_i), ParamAbsent), DeleteCmd(ParamFound(N_i), ParamTooLong) }

\* INFO_FAIL_RESPONSE(db, num, message) and the "OK" reply.
FailResponse(num, message) == [status |-> "FAIL", num |-> num, message |-> message]
OkResponse == [status |-> "OK", num |-> "", message |-> ""]
NoResponse == [status |-> "", num |-> "", message |-> ""]

\* Parameter validation of info_command_sindex_create, in the code's order;
\* NoResponse when every parameter is accepted.
CreateParamError(cmd) ==
    LET idata == cmd.indexdata.val
        comma == strchr(idata, ",")
        bin_name == SubSeq(idata, 1, comma - 1)
        type_str == SubSeq(idata, comma + 1, Len(idata))
    IN
    IF cmd.indexname.rv = -1 \/ (cmd.indexname.rv = 0 /\ Len(cmd.indexname.val) = 0)
    THEN FailResponse("AS_ERR_PARAMETER", "missing 'indexname'")
    ELSE IF cmd.indexname.rv = -2
    THEN FailResponse("AS_ERR_PARAMETER", "'indexname' too long")
    ELSE IF cmd.ns.rv = -1 \/ (cmd.ns.rv = 0 /\ Len(cmd.ns.val) = 0)
    THEN FailResponse("AS_ERR_PARAMETER", "missing 'ns'")
    ELSE IF cmd.ns.rv = -2
    THEN FailResponse("AS_ERR_PARAMETER", "'ns' too long")
    ELSE IF cmd.set.rv = 0 /\ Len(cmd.set.val) = 0
    THEN FailResponse("AS_ERR_PARAMETER", "zero-length 'set'")
    ELSE IF cmd.set.rv = -2
    THEN FailResponse("AS_ERR_PARAMETER", "'set' too long")
    ELSE IF cmd.context.rv = 0 /\ cmd.ctx_sz = -1
    THEN FailResponse("AS_ERR_PARAMETER", "'context' invalid base64")
    ELSE IF cmd.context.rv = 0 /\ cmd.ctx_sz = -2
    THEN FailResponse("AS_ERR_PARAMETER", "'context' invalid cdt context")
    ELSE IF cmd.context.rv = 0 /\ cmd.ctx_sz = -3
    THEN FailResponse("AS_ERR_PARAMETER", "'context' not normalized msgpack")
    ELSE IF cmd.context.rv = -2
    THEN FailResponse("AS_ERR_PARAMETER", "'context' too long")
    ELSE IF cmd.indextype.rv = -2
    THEN FailResponse("AS_ERR_PARAMETER", "'indextype' too long")
    ELSE IF cmd.indextype.rv = 0 /\ as_sindex_itype_from_string(cmd.indextype.val) = "?"
    THEN FailResponse("AS_ERR_PARAMETER",
             "bad 'indextype' - must be one of 'default', 'list', 'mapkeys', 'mapvalues'")
    ELSE IF cmd.indexdata.rv = -1 \/ (cmd.indexdata.rv = 0 /\ Len(idata) = 0)
    THEN FailResponse("AS_ERR_PARAMETER", "missing 'indexdata'")
    ELSE IF cmd.indexdata.rv = -2
    THEN FailResponse("AS_ERR_PARAMETER", "'indexdata' too long")
    ELSE IF comma = 0
    THEN FailResponse("AS_ERR_PARAMETER", "'indexdata' missing bin type")
    ELSE IF Len(bin_name) = 0
    THEN FailResponse("AS_ERR_PARAMETER", "'indexdata' missing bin name")
    ELSE IF Len(bin_name) >= AS_BIN_NAME_MAX_SZ
    THEN FailResponse("AS_ERR_PARAMETER", "'indexdata' bin name too long")
    ELSE IF as_sindex_ktype_from_string(type_str) = "?"
    THEN FailResponse("AS_ERR_PARAMETER",
             "bad 'indexdata' bin type - must be one of 'numeric', 'string', 'geo2dsphere'")
    ELSE NoResponse

\* The key info_command_sindex_create composes once its parameters passed.
CreateSmdKey(cmd) ==
    LET idata == cmd.indexdata.val
        comma == strchr(idata, ",")
    IN as_sindex_build_smd_key(
           cmd.ns.val,
           IF cmd.set.rv = 0 THEN cmd.set.val ELSE NULLSTR,
           SubSeq(idata, 1, comma - 1),
           IF cmd.context.rv = 0 THEN cmd.context.val ELSE NULLSTR,
           IF cmd.indextype.rv = -1 THEN "."
               ELSE as_sindex_itype_from_string(cmd.indextype.val),
           as_sindex_ktype_from_string(SubSeq(idata, comma + 1, Len(idata))))

\* Parameter validation of info_command_sindex_delete.
DeleteParamError(cmd) ==
    IF cmd.indexname.rv = -1 \/ (cmd.indexname.rv = 0 /\ Len(cmd.indexname.val) = 0)
    THEN FailResponse("AS_ERR_PARAMETER", "missing 'indexname'")
    ELSE IF cmd.indexname.rv = -2
    THEN FailResponse("AS_ERR_PARAMETER", "'indexname' too long")
    ELSE IF cmd.ns.rv = -1 \/ (cmd.ns.rv = 0 /\ Len(cmd.ns.val) = 0)
    THEN FailResponse("AS_ERR_PARAMETER", "missing 'ns'")
    ELSE IF cmd.ns.rv = -2
    THEN FailResponse("AS_ERR_PARAMETER", "'ns' too long")
    ELSE NoResponse

\* One SMD item; value NULLSTR is a tombstone.
SmdItem(key, value) == [key |-> key, value |-> value]

\* find_sindex_key: one pass over the snapshot.
FskStart(smd_key) ==
    [found_key |-> NULLSTR, n_name_matches |-> 0, n_indexes |-> 0,
     has_smd_key |-> FALSE, smd_key |-> smd_key]

\* The visit that keeps the first match's key when a further item carries
\* the name.
FskVisit_KeepFirstMatch(fsk, item, ns_name, index_name) ==
    LET bar == strchr(item.key, "|")
        counted == [fsk EXCEPT !.n_indexes = @ + 1]
        keyed == IF counted.smd_key # NULLSTR /\ counted.smd_key = item.key
                 THEN [counted EXCEPT !.has_smd_key = TRUE, !.smd_key = NULLSTR]
                 ELSE counted
        named == [keyed EXCEPT !.n_name_matches = @ + 1]
    IN
    IF item.value = NULLSTR THEN fsk
    ELSE IF bar = 0 THEN fsk
    ELSE IF bar - 1 # Len(ns_name) \/ SubSeq(item.key, 1, Len(ns_name)) # ns_name THEN fsk
    ELSE IF index_name # item.value THEN keyed
    ELSE IF named.n_name_matches = 1 THEN [named EXCEPT !.found_key = item.key]
    ELSE named

FskVisit(fsk, item, ns_name, index_name) ==
    LET bar == strchr(item.key, "|")
        counted == [fsk EXCEPT !.n_indexes = @ + 1]
        keyed == IF counted.smd_key # NULLSTR /\ counted.smd_key = item.key
                 THEN [counted EXCEPT !.has_smd_key = TRUE, !.smd_key = NULLSTR]
                 ELSE counted
        named == [keyed EXCEPT !.n_name_matches = @ + 1]
    IN
    IF item.value = NULLSTR THEN fsk
    ELSE IF bar = 0 THEN fsk
    ELSE IF bar - 1 # Len(ns_name) \/ SubSeq(item.key, 1, Len(ns_name)) # ns_name THEN fsk
    ELSE IF index_name # item.value THEN keyed
    ELSE IF named.n_name_matches = 1 THEN [named EXCEPT !.found_key = item.key]
    ELSE [named EXCEPT !.found_key = NULLSTR]

RECURSIVE FskLoop(_, _, _, _, _)
FskLoop(fsk, items, i, ns_name, index_name) ==
    IF i > Len(items) THEN fsk
    ELSE FskLoop(FskVisit(fsk, items[i], ns_name, index_name), items, i + 1,
                 ns_name, index_name)

find_sindex_key(items, ns_name, index_name, smd_key) ==
    FskLoop(FskStart(smd_key), items, 1, ns_name, index_name)

\* strcmp(fsk.found_key, smd_key) != 0 in info_command_sindex_create.
FoundKeyDiffers_Never(found_key, smd_key) == FALSE

FoundKeyDiffers(found_key, smd_key) == found_key # smd_key

\* The decision without its found_key branch.
CreateDecision_NoFoundKey(fsk, smd_key) ==
    IF fsk.n_name_matches > 1
    THEN FailResponse("AS_ERR_SINDEX_FOUND",
             "'indexname' already exists with multiple definitions")
    ELSE IF ~fsk.has_smd_key /\ fsk.n_indexes >= MAX_N_SINDEXES
    THEN FailResponse("AS_ERR_SINDEX_MAX_COUNT", "already at sindex definition limit")
    ELSE NoResponse

\* The decision that never looks at names.
CreateDecision_NamesFree(fsk, smd_key) ==
    IF ~fsk.has_smd_key /\ fsk.n_indexes >= MAX_N_SINDEXES
    THEN FailResponse("AS_ERR_SINDEX_MAX_COUNT", "already at sindex definition limit")
    ELSE NoResponse

\* The decision without a limit on the definitions of a namespace.
CreateDecision_NoLimit(fsk, smd_key) ==
    IF fsk.found_key # NULLSTR
    THEN IF FoundKeyDiffers(fsk.found_key, smd_key)
         THEN FailResponse("AS_ERR_SINDEX_FOUND",
                  "'indexname' already exists with different definition")
         ELSE OkResponse
    ELSE IF fsk.n_name_matches > 1
    THEN FailResponse("AS_ERR_SINDEX_FOUND",
             "'indexname' already exists with multiple definitions")
    ELSE NoResponse

\* The decision that looks for the composed key before it looks at names.
CreateDecision_SameKeyFirst(fsk, smd_key) ==
    IF fsk.has_smd_key
    THEN OkResponse
    ELSE IF fsk.found_key # NULLSTR
    THEN FailResponse("AS_ERR_SINDEX_FOUND",
             "'indexname' already exists with different definition")
    ELSE IF fsk.n_name_matches > 1
    THEN FailResponse("AS_ERR_SINDEX_FOUND",
             "'indexname' already exists with multiple definitions")
    ELSE IF fsk.n_indexes >= MAX_N_SINDEXES
    THEN FailResponse("AS_ERR_SINDEX_MAX_COUNT", "already at sindex definition limit")
    ELSE NoResponse

\* The decision of info_command_sindex_create after the snapshot: a reply,
\* or NoResponse when the blocking set is to be issued.
CreateDecision(fsk, smd_key) ==
    IF fsk.found_key # NULLSTR
    THEN IF FoundKeyDiffers(fsk.found_key, smd_key)
         THEN FailResponse("AS_ERR_SINDEX_FOUND",
                  "'indexname' already exists with different definition")
         ELSE OkResponse
    ELSE IF fsk.n_name_matches > 1
    THEN FailResponse("AS_ERR_SINDEX_FOUND",
             "'indexname' already exists with multiple definitions")
    ELSE IF ~fsk.has_smd_key /\ fsk.n_indexes >= MAX_N_SINDEXES
    THEN FailResponse("AS_ERR_SINDEX_MAX_COUNT", "already at sindex definition limit")
    ELSE NoResponse

\* The decision that hands every command to the blocking delete.
DeleteDecision_AlwaysDelete(fsk) == NoResponse

\* The decision of info_command_sindex_delete after the snapshot.
DeleteDecision(fsk) ==
    IF fsk.found_key = NULLSTR
    THEN IF fsk.n_name_matches = 0
         THEN OkResponse
         ELSE FailResponse("AS_ERR_SINDEX_FOUND", "'indexname' is not unique")
    ELSE NoResponse

\* as_smd_set_blocking / as_smd_delete_blocking on the module's items: one
\* item per key; a set replaces the value (reviving a tombstone), a delete
\* leaves a tombstone.
RECURSIVE SmdIndexOf(_, _, _)
SmdIndexOf(items, key, i) ==
    IF i > Len(items) THEN 0
    ELSE IF items[i].key = key THEN i
    ELSE SmdIndexOf(items, key, i + 1)

\* A set that adds an item whatever the module holds.
as_smd_set_AlwaysAppend(items, key, value) == Append(items, SmdItem(key, value))

as_smd_set(items, key, value) ==
    LET i == SmdIndexOf(items, key, 1)
    IN IF i = 0 THEN Append(items, SmdItem(key, value))
       ELSE [items EXCEPT ![i].value = value]

as_smd_delete(items, key) == as_smd_set(items, key, NULLSTR)

\* A handler's position and what it carries between its steps.
SxIdle == [pc |-> "idle", op |-> "", ns_name |-> NULLSTR, index_name |-> NULLSTR,
           key |-> NULLSTR,
           reply |-> NoResponse, applied |-> FALSE]

SxDone(op, ns_name, index_name, key, response, applied) ==
    [pc |-> "done", op |-> op, ns_name |-> ns_name, index_name |-> index_name, key |-> key,
     reply |-> response, applied |-> applied]

sindexUnchanged == <<workerVars, fdsVars, dispVars, svcVars>>

\* sindex-create up to its decision: validation, key composition, one
\* as_smd_get_all snapshot, and either the reply or the way to the set.
SindexCreateSnapshot(w, cmd) ==
    /\ sx[w].pc = "idle"
    /\ cmd.op = "create"
    /\ LET err == CreateParamError(cmd)
           smd_key == CreateSmdKey(cmd)
           fsk == find_sindex_key(smd_items, cmd.ns.val, cmd.indexname.val, smd_key)
           decision == CreateDecision(fsk, smd_key)
       IN IF err # NoResponse
          THEN sx' = [sx EXCEPT ![w] = SxDone("create", NULLSTR, NULLSTR, NULLSTR, err, FALSE)]
          ELSE IF decision # NoResponse
          THEN sx' = [sx EXCEPT ![w] =
                          SxDone("create", cmd.ns.val, cmd.indexname.val, smd_key, decision,
                                 FALSE)]
          ELSE sx' = [sx EXCEPT ![w] =
                          [pc |-> "set", op |-> "create", ns_name |-> cmd.ns.val,
                           index_name |-> cmd.indexname.val,
                           key |-> smd_key, reply |-> NoResponse, applied |-> FALSE]]
    /\ UNCHANGED <<smd_items, sindexUnchanged>>

\* as_smd_set_blocking with timeout 0 (unbounded), then "OK".
SindexCreateSet(w) ==
    /\ sx[w].pc = "set"
    /\ smd_items' = as_smd_set(smd_items, sx[w].key, sx[w].index_name)
    /\ sx' = [sx EXCEPT ![w] = SxDone("create", sx[w].ns_name, sx[w].index_name,
                                     sx[w].key, OkResponse, TRUE)]
    /\ UNCHANGED sindexUnchanged

\* sindex-delete up to its decision.
SindexDeleteSnapshot(w, cmd) ==
    /\ sx[w].pc = "idle"
    /\ cmd.op = "delete"
    /\ LET err == DeleteParamError(cmd)
           fsk == find_sindex_key(smd_items, cmd.ns.val, cmd.indexname.val, NULLSTR)
           decision == DeleteDecision(fsk)
       IN IF err # NoResponse
          THEN sx' = [sx EXCEPT ![w] = SxDone("delete", NULLSTR, NULLSTR, NULLSTR, err, FALSE)]
          ELSE IF decision # NoResponse
          THEN sx' = [sx EXCEPT ![w] =
                          SxDone("delete", cmd.ns.val, cmd.indexname.val, NULLSTR, decision,
                                 FALSE)]
          ELSE sx' = [sx EXCEPT ![w] =
                          [pc |-> "del", op |-> "delete", ns_name |-> cmd.ns.val,
                           index_name |-> cmd.indexname.val,
                           key |-> fsk.found_key, reply |-> NoResponse, applied |-> FALSE]]
    /\ UNCHANGED <<smd_items, sindexUnchanged>>

\* as_smd_delete_blocking with timeout 0 (unbounded), then "OK".
SindexDeleteApply(w) ==
    /\ sx[w].pc = "del"
    /\ smd_items' = as_smd_delete(smd_items, sx[w].key)
    /\ sx' = [sx EXCEPT ![w] = SxDone("delete", sx[w].ns_name, sx[w].index_name,
                                     sx[w].key, OkResponse, TRUE)]
    /\ UNCHANGED sindexUnchanged

(***************************************************************************)
(* config-set memory-size: the namespace branch of                         *)
(* info_command_config_set_threadsafe. Calls are serialised by             *)
(* g_set_cfg_lock; readers of ns->memory_size take no lock, so every store *)
(* is a step of its own.                                                   *)
(***************************************************************************)
\* Largest memory-size in a run.
MaxMemorySize == 6
MemorySizes == 0..MaxMemorySize

\* A context string cf_str_atoi_u64 refuses.
NotANumber == -1

\* A floor that refuses nothing.
MemorySizeFloor_None(m) == 0

\* ns->memory_size / 2L, below which a new value is refused.
MemorySizeFloor(m) == m \div 2

\* old is the value the call found on entry.
MsIdle == [pc |-> "idle", val |-> 0, old |-> 0, reply |-> ""]

memUnchanged == <<workerVars, smdVars, fdsVars, dispVars, quiesceVars, paramVars, regVars, tickVars,
                  clusterVars,
                   tipVars,
                   tickerThreadVars,
                   nsCfgVars,
                   nsStatsVars>>

\* as_info_parameter_get found memory-size; cf_str_atoi_u64 parses it.
MemSizeParse(context) ==
    /\ ms.pc \in {"idle", "done"}
    /\ IF context = NotANumber
       THEN ms' = [pc |-> "done", val |-> context, old |-> memory_size,
                   reply |-> "error"]
       ELSE ms' = [pc |-> "raise", val |-> context, old |-> memory_size, reply |-> ""]
    /\ UNCHANGED <<memory_size, memUnchanged>>

\* if (val > ns->memory_size) ns->memory_size = val;
MemSizeRaise ==
    /\ ms.pc = "raise"
    /\ memory_size' = IF ms.val > memory_size THEN ms.val ELSE memory_size
    /\ ms' = [ms EXCEPT !.pc = "floor"]
    /\ UNCHANGED memUnchanged

\* if (val < (ns->memory_size / 2L)) goto Error;
MemSizeCheckFloor ==
    /\ ms.pc = "floor"
    /\ IF ms.val < MemorySizeFloor(memory_size)
       THEN ms' = [ms EXCEPT !.pc = "done", !.reply = "error"]
       ELSE ms' = [ms EXCEPT !.pc = "store"]
    /\ UNCHANGED <<memory_size, memUnchanged>>

\* ns->memory_size = val; and the handler's "ok".
MemSizeStore ==
    /\ ms.pc = "store"
    /\ memory_size' = ms.val
    /\ ms' = [ms EXCEPT !.pc = "done", !.reply = "ok"]
    /\ UNCHANGED memUnchanged

(***************************************************************************)
(* as_info_parameter_get: the scan of a command's parameter string for one *)
(* parameter, and the copy of its value into the caller's buffer.          *)
(***************************************************************************)
\* Longest parameter string and largest buffer in a run.
MaxParamStrLen == 5
MaxValueLen == 3
ParamChars == {"n", "s", "=", ";", "v"}
ParamStrs == SeqsUpTo(ParamChars, MaxParamStrLen)
ParamNames == {<<"n">>, <<"n", "s">>}

\* A test that lets a value as long as the buffer through.
ValueTooLong_AllowBound(value_len, found_len) == value_len < found_len

\* *value_len <= c - tok: no room for the value and its terminating 0.
ValueTooLong(value_len, found_len) == value_len <= found_len

\* while (*c != 0 && *c != ';') c++;
RECURSIVE ValueEnd(_, _)
ValueEnd(param_str, cursor) ==
    IF cursor > Len(param_str) \/ param_str[cursor] = ";" THEN cursor
    ELSE ValueEnd(param_str, cursor + 1)

\* What a call leaves: the return value, *value_len, and the buffer (copied
\* tells whether the function wrote to it).
ParamResult(rv, value_len, copied, value) ==
    [rv |-> rv, value_len |-> value_len, copied |-> copied, value |-> value]

\* The loop of as_info_parameter_get; cursor and token are its c and tok.
RECURSIVE ParamScan(_, _, _, _, _)
ParamScan(param_str, param, value_len, cursor, token) ==
    IF cursor > Len(param_str) THEN ParamResult(-1, value_len, FALSE, <<>>)
    ELSE IF param_str[cursor] = "="
    THEN IF Len(param) = cursor - token
            /\ SubSeq(param_str, token, cursor - 1) = param
         THEN LET start == cursor + 1
                  end == ValueEnd(param_str, start)
              IN IF ValueTooLong(value_len, end - start)
                 THEN ParamResult(-2, value_len, FALSE, <<>>)
                 ELSE ParamResult(0, end - start, TRUE,
                                  SubSeq(param_str, start, end - 1))
         ELSE ParamScan(param_str, param, value_len, cursor + 1, token)
    ELSE IF param_str[cursor] = ";"
    THEN ParamScan(param_str, param, value_len, cursor + 1, cursor + 1)
    ELSE ParamScan(param_str, param, value_len, cursor + 1, token)

as_info_parameter_get(param_str, param, value_len) ==
    ParamScan(param_str, param, value_len, 1, 1)

PgIdle == [pc |-> "idle", param_str |-> <<>>, param |-> <<"n">>, value_len |-> 0,
           out |-> ParamResult(0, 0, FALSE, <<>>)]

paramUnchanged == <<workerVars, smdVars, fdsVars, dispVars, quiesceVars, memVars, regVars, tickVars,
                  clusterVars,
                     tipVars,
                     tickerThreadVars,
                     nsCfgVars,
                     nsStatsVars>>

\* One call of as_info_parameter_get on the arguments drawn at the start.
ParamGetCall ==
    /\ pg.pc = "idle"
    /\ pg' = [pg EXCEPT !.pc = "done",
                        !.out = as_info_parameter_get(pg.param_str, pg.param,
                                                      pg.value_len)]
    /\ UNCHANGED paramUnchanged

(***************************************************************************)
(* config-set ticker-interval and config-get of the service context. The   *)
(* value travels string -> int -> uint32 -> string; IntBits stands in for  *)
(* the 32 bits of int and uint32_t.                                        *)
(***************************************************************************)
IntBits == 8
IntMax == 2 ^ (IntBits - 1) - 1
UintMod == 2 ^ IntBits

\* Longest context string sent for ticker-interval.
MaxContextLen == 3
ContextChars == {"-", "0", "1", "2", "x"}
Contexts == SeqsUpTo(ContextChars, MaxContextLen) \ {<<>>}

Digits == <<"0", "1", "2", "3", "4", "5", "6", "7", "8", "9">>
IsDigit(ch) == \E d \in 1..10 : Digits[d] = ch
DigitValue(ch) == (CHOOSE d \in 1..10 : Digits[d] = ch) - 1

\* cf_str_atoi's digit loop from position i on: the accumulated value
\* (unbounded here) and the position of the first non-digit.
RECURSIVE AtoiDigits(_, _, _)
AtoiDigits(str, i, acc) ==
    IF i > Len(str) \/ ~IsDigit(str[i]) THEN [acc |-> acc, stop |-> i]
    ELSE AtoiDigits(str, i + 1, acc * 10 + DigitValue(str[i]))

\* cf_str_atoi: an optional '-', then digits to the end of the string. The
\* outcomes are a set: a value that does not fit an int overflows the
\* accumulator, which is undefined, so any int may come out.
cf_str_atoi(str) ==
    LET neg == Len(str) >= 1 /\ str[1] = "-"
        scan == AtoiDigits(str, IF neg THEN 2 ELSE 1, 0)
    IN IF scan.stop <= Len(str) THEN {[rv |-> -1, val |-> 0]}
       ELSE IF scan.acc > IntMax
       THEN {[rv |-> 0, val |-> v] : v \in (-IntMax - 1)..IntMax}
       ELSE {[rv |-> 0, val |-> IF neg THEN -scan.acc ELSE scan.acc]}

\* g_config.ticker_interval = val: the int converted to uint32_t.
ToUint32(val) == (val + UintMod) % UintMod

\* The decimal digits info_append_uint32 writes for a value.
RECURSIVE ToDecimal(_)
ToDecimal(n) ==
    IF n < 10 THEN <<Digits[n + 1]>>
    ELSE Append(ToDecimal(n \div 10), Digits[(n % 10) + 1])

\* One name=value; item of a config-get reply.
ConfigItem(name, value) == [name |-> name, value |-> value]

\* info_service_config_get around ticker-interval, as the items appended.
info_service_config_get ==
    << ConfigItem("stay-quiesced", <<"f", "a", "l", "s", "e">>),
       ConfigItem("ticker-interval", ToDecimal(ticker_interval)),
       ConfigItem("transaction-max-ms", ToDecimal(1)) >>

\* The client: set is the context it sent, reply the answer, snapshot the
\* config-get reply it read last, before the one it read before that.
TkIdle == [pc |-> "idle", set |-> <<>>, reply |-> "", snapshot |-> <<>>,
           before |-> <<>>]

tickUnchanged == <<workerVars, smdVars, fdsVars, dispVars, quiesceVars, memVars, paramVars, regVars,
                  clusterVars,
                    tipVars,
                    tickerThreadVars,
                    nsCfgVars,
                    nsStatsVars>>

\* config-set:context=service;ticker-interval=<context>, the whole handler.
TickerSet(context, to_pc) ==
    \E out \in cf_str_atoi(context) :
        IF out.rv # 0
        THEN /\ tk' = [tk EXCEPT !.pc = to_pc, !.set = context, !.reply = "error"]
             /\ UNCHANGED <<ticker_interval, tickUnchanged>>
        ELSE /\ ticker_interval' = ToUint32(out.val)
             /\ tk' = [tk EXCEPT !.pc = to_pc, !.set = context, !.reply = "ok"]
             /\ UNCHANGED tickUnchanged

\* The client sends a value of its own.
TickerSetAny ==
    /\ tk.pc = "idle"
    /\ \E context \in Contexts : TickerSet(context, "set")

\* config-get:context=service.
ConfigGet ==
    /\ tk.pc \in {"set", "reset"}
    /\ tk' = [tk EXCEPT !.pc = IF tk.pc = "set" THEN "got" ELSE "regot",
                        !.snapshot = info_service_config_get,
                        !.before = tk.snapshot]
    /\ UNCHANGED <<ticker_interval, tickUnchanged>>

\* The client sends back the ticker-interval value it has just read.
TickerSetRead ==
    /\ tk.pc = "got"
    /\ \E i \in 1..Len(tk.snapshot) :
           /\ tk.snapshot[i].name = "ticker-interval"
           /\ TickerSet(tk.snapshot[i].value, "reset")

(***************************************************************************)
(* cluster-stable: info_command_cluster_stable reads the cluster key,      *)
(* collects the cluster size and the migration counts, and reads the key   *)
(* again; the exchange may install a new cluster between any two reads.    *)
(***************************************************************************)
\* Cluster changes in a run.
MaxClusterChanges == 2
ClusterKeys == 1..(MaxClusterChanges + 1)
ClusterSizes == {1, 2}

\* The parameters as as_info_parameter_get returns them. size: is_u32 tells
\* whether cf_str_atoi_u32 accepts the string, target_size its value.
\* namespace: known tells whether as_namespace_get_byname finds it, pending
\* is the sum of its four partition counters.
SizeParams ==
    {[rv |-> -1, is_u32 |-> FALSE, target_size |-> 0],
     [rv |-> -2, is_u32 |-> FALSE, target_size |-> 0],
     [rv |-> 0, is_u32 |-> FALSE, target_size |-> 0]}
    \cup {[rv |-> 0, is_u32 |-> TRUE, target_size |-> n] : n \in ClusterSizes}

IgnoreMigrationsParams ==
    {[rv |-> -1, str |-> ""], [rv |-> -2, str |-> ""]}
    \cup {[rv |-> 0, str |-> x] : x \in {"true", "yes", "false", "no", "maybe"}}

NamespaceParams ==
    {[rv |-> -1, known |-> FALSE, pending |-> 0],
     [rv |-> -2, known |-> FALSE, pending |-> 0],
     [rv |-> 0, known |-> FALSE, pending |-> 0],
     [rv |-> 0, known |-> TRUE, pending |-> 0],
     [rv |-> 0, known |-> TRUE, pending |-> 1]}

StableParams ==
    [size : SizeParams, ignore_migrations : IgnoreMigrationsParams,
     namespace : NamespaceParams]

\* The reply body: the error string appended, if any, and the cluster key
\* appended after it, if any (0 for none).
CsReply(error, key) == [error |-> error, key |-> key]
NoCsReply == CsReply("", 0)

CsIdle == [pc |-> "idle", begin_cluster_key |-> 0, end_cluster_key |-> 0,
           reply |-> NoCsReply]

clusterUnchanged == <<workerVars, smdVars, fdsVars, dispVars, memVars, paramVars, quiesceVars,
                      regVars, tickVars,
                       tipVars,
                       tickerThreadVars,
                       nsCfgVars,
                       nsStatsVars>>

\* The exchange installs a new cluster: a new key, and whatever comes with it.
ClusterChange ==
    /\ cluster.key <= MaxClusterChanges
    /\ \E allowed \in BOOLEAN, size \in ClusterSizes, remaining \in {0, 1} :
           cluster' = [key |-> cluster.key + 1, migrations_allowed |-> allowed,
                       size |-> size, remaining |-> remaining]
    /\ UNCHANGED <<cs, clusterUnchanged>>

\* uint64_t begin_cluster_key = as_exchange_cluster_key();
ClusterStableBegin ==
    /\ cs.pc = "idle"
    /\ cs' = [CsIdle EXCEPT !.pc = "allowed", !.begin_cluster_key = cluster.key]
    /\ UNCHANGED <<cluster, clusterUnchanged>>

\* as_partition_balance_are_migrations_allowed().
ClusterStableAllowed ==
    /\ cs.pc = "allowed"
    /\ cs' = IF ~cluster.migrations_allowed
             THEN [cs EXCEPT !.pc = "done",
                             !.reply = CsReply("ERROR::unstable-cluster", 0)]
             ELSE [cs EXCEPT !.pc = "collect"]
    /\ UNCHANGED <<cluster, clusterUnchanged>>

\* The error of the collection, "" when it reaches the final comparison.
CollectError(params) ==
    LET ignore_migrations ==
            params.ignore_migrations.rv = 0
            /\ params.ignore_migrations.str \in {"true", "yes"}
    IN
    IF params.size.rv = -2 THEN "ERROR::bad-size"
    ELSE IF params.size.rv = 0 /\ ~params.size.is_u32 THEN "ERROR::bad-size"
    ELSE IF params.size.rv = 0 /\ params.size.target_size # cluster.size
    THEN "ERROR::cluster-not-specified-size"
    ELSE IF params.ignore_migrations.rv = -2 THEN "ERROR::bad-ignore-migrations"
    ELSE IF params.ignore_migrations.rv = 0
            /\ params.ignore_migrations.str \notin {"true", "yes", "false", "no"}
    THEN "ERROR::bad-ignore-migrations"
    ELSE IF ignore_migrations THEN ""
    ELSE IF params.namespace.rv = -2 THEN "ERROR::bad-namespace"
    ELSE IF params.namespace.rv = -1
    THEN IF cluster.remaining # 0 THEN "ERROR::unstable-cluster" ELSE ""
    ELSE IF ~params.namespace.known THEN "ERROR::unknown-namespace"
    ELSE IF params.namespace.pending # 0 THEN "ERROR::unstable-cluster"
    ELSE ""

\* The size, ignore-migrations and namespace checks.
ClusterStableCollect ==
    /\ cs.pc = "collect"
    /\ \E params \in StableParams :
           cs' = IF CollectError(params) # ""
                 THEN [cs EXCEPT !.pc = "done",
                                 !.reply = CsReply(CollectError(params), 0)]
                 ELSE [cs EXCEPT !.pc = "verify"]
    /\ UNCHANGED <<cluster, clusterUnchanged>>

\* The second read of the cluster key and what is appended after it.
ClusterStableVerify ==
    /\ cs.pc = "verify"
    /\ cs' = [cs EXCEPT !.pc = "done",
                        !.end_cluster_key = cluster.key,
                        !.reply = CsReply(IF cs.begin_cluster_key # cluster.key
                                          THEN "ERROR::unstable-cluster" ELSE "",
                                          cs.begin_cluster_key)]
    /\ UNCHANGED <<cluster, clusterUnchanged>>

(***************************************************************************)
(* quiesce and quiesce-undo: the edition and stay-quiesced tests, then one  *)
(* store per namespace, then "ok".                                         *)
(***************************************************************************)
\* g_config.n_namespaces in a run.
MaxNamespaces == 3
Namespaces == 1..MaxNamespaces

QuiesceCmds == {"quiesce", "quiesce-undo"}

\* before is pending_quiesce as the call found it.
QcIdle == [pc |-> "idle", cmd |-> "", ns_ix |-> 1, reply |-> "",
           before |-> [ns \in Namespaces |-> FALSE]]

quiesceUnchanged == <<workerVars, smdVars, fdsVars, dispVars, memVars, paramVars,
                      regVars, tickVars, clusterVars,
                       tipVars,
                       tickerThreadVars,
                       nsCfgVars,
                       nsStatsVars>>

\* The reply of the tests in front of the loop, "" when the loop is entered.
QuiesceRefusal(cmd) ==
    IF ~qcfg.enterprise THEN "ERROR::enterprise-only"
    ELSE IF qcfg.stay_quiesced
    THEN IF cmd = "quiesce" THEN "ERROR::permanently-quiesced"
         ELSE "ignored-permanently-quiesced"
    ELSE ""

\* A loop that stops one namespace short.
QuiesceLoopEnds_Early(ns_ix) == ns_ix >= MaxNamespaces

\* ns_ix < g_config.n_namespaces fails (ns_ix counts from 1 here).
QuiesceLoopEnds(ns_ix) == ns_ix > MaxNamespaces

\* info_command_quiesce / info_command_quiesce_undo up to the loop.
QuiesceEnter(cmd) ==
    /\ qc.pc \in {"idle", "done"}
    /\ qc' = IF QuiesceRefusal(cmd) # ""
             THEN [pc |-> "done", cmd |-> cmd, ns_ix |-> 1,
                   reply |-> QuiesceRefusal(cmd), before |-> pending_quiesce]
             ELSE [pc |-> "loop", cmd |-> cmd, ns_ix |-> 1, reply |-> "",
                   before |-> pending_quiesce]
    /\ UNCHANGED <<pending_quiesce, qcfg, quiesceUnchanged>>

\* One turn of the loop, or "ok" after its last turn.
QuiesceLoop ==
    /\ qc.pc = "loop"
    /\ IF QuiesceLoopEnds(qc.ns_ix)
       THEN /\ qc' = [qc EXCEPT !.pc = "done", !.reply = "ok"]
            /\ UNCHANGED pending_quiesce
       ELSE /\ pending_quiesce' =
                   [pending_quiesce EXCEPT ![qc.ns_ix] = (qc.cmd = "quiesce")]
            /\ qc' = [qc EXCEPT !.ns_ix = @ + 1]
    /\ UNCHANGED <<qcfg, quiesceUnchanged>>

(***************************************************************************)
(* tip: info_command_tip reads host, port and tls and hands them to the    *)
(* heartbeat subsystem.                                                    *)
(***************************************************************************)
\* sizeof(host_str), and sizeof(port_str) = sizeof(tls_str).
DNS_NAME_MAX_SIZE == 256
TIP_STR_SZ == 50

\* A parameter as the client sent it: absent, or present with a value.
Sent(val) == [present |-> TRUE, val |-> val]
NotSent == [present |-> FALSE, val |-> NULLSTR]
LongValue(n) == [i \in 1..n |-> "x"]

\* as_info_parameter_get on a parameter string that holds the parameter as
\* sent, with a buffer of value_len bytes.
GetSent(p, value_len) ==
    IF ~p.present THEN ParamAbsent
    ELSE IF ValueTooLong(value_len, Len(p.val)) THEN ParamTooLong
    ELSE ParamFound(p.val)

TipHosts == {NotSent, Sent(<<"h">>), Sent(LongValue(DNS_NAME_MAX_SIZE))}
TipPorts == {NotSent, Sent(<<"2", "2">>), Sent(<<"-", "1">>), Sent(<<"x">>),
             Sent(<<"2", "x">>), Sent(LongValue(TIP_STR_SZ))}
TipTls == {NotSent, Sent(S_true), Sent(S_false), Sent(S_yes),
           Sent(LongValue(TIP_STR_SZ))}
TipParams == [host : TipHosts, port : TipPorts, tls : TipTls]

TipIdle == [pc |-> "idle", params |-> [host |-> NotSent, port |-> NotSent, tls |-> NotSent],
            reply |-> "", called |-> FALSE, rv |-> -1]

tipUnchanged == <<workerVars, smdVars, fdsVars, dispVars, memVars, paramVars, regVars,
                  tickVars, clusterVars, quiesceVars,
                   tickerThreadVars,
                   nsCfgVars,
                   nsStatsVars>>

\* The handler up to its call of as_hb_mesh_tip: the arguments of the call,
\* or valid = FALSE when it goes to Exit before.
TipArguments(params, atoi) ==
    LET host == GetSent(params.host, DNS_NAME_MAX_SIZE)
        port == GetSent(params.port, TIP_STR_SZ)
        tls == GetSent(params.tls, TIP_STR_SZ)
        tls_str == IF tls.rv # 0 THEN S_false ELSE tls.val
    IN [valid |-> /\ host.rv = 0
                  /\ port.rv = 0
                  /\ atoi.rv = 0
                  /\ tls_str \in {S_true, S_false},
        host |-> host.val, port |-> atoi.val, tls |-> tls_str = S_true]

\* info_command_tip, the whole handler. as_hb_mesh_tip either records the
\* seed and returns 0 or refuses it.
TipCommand ==
    /\ tip.pc = "idle"
    /\ \E params \in TipParams :
        \E atoi \in cf_str_atoi(GetSent(params.port, TIP_STR_SZ).val) :
        \E accepted \in BOOLEAN :
           LET args == TipArguments(params, atoi)
           IN IF ~args.valid
              THEN /\ tip' = [pc |-> "done", params |-> params, reply |-> "error",
                              called |-> FALSE, rv |-> -1]
                   /\ UNCHANGED hb_mesh_seeds
              ELSE /\ tip' = [pc |-> "done", params |-> params,
                              reply |-> IF accepted THEN "ok" ELSE "error",
                              called |-> TRUE, rv |-> IF accepted THEN 0 ELSE -1]
                   /\ hb_mesh_seeds' =
                          IF accepted
                          THEN hb_mesh_seeds \cup
                                   {[host |-> args.host, port |-> args.port, tls |-> args.tls]}
                          ELSE hb_mesh_seeds
    /\ UNCHANGED tipUnchanged

\* The next tip command arrives.
TipNext ==
    /\ tip.pc = "done"
    /\ tip' = TipIdle
    /\ UNCHANGED <<hb_mesh_seeds, tipUnchanged>>

(***************************************************************************)
(* The ticker thread: run_ticker wakes every second, starts a frame when   *)
(* the configured interval has elapsed, and leaves when it finds the       *)
(* shutdown flag set; log_fabric_rate publishes the fabric rates of the    *)
(* frame. NS_PER_SEC stands in for the 1000000000 of the source.           *)
(***************************************************************************)
NS_PER_SEC == 4
\* The clock value at which a run ends, and the longest sleep.
MaxClockNs == 12
MaxSleepNs == 6

FabricChannels == {"bulk", "ctrl", "meta", "rw"}
FabricDirs == {"s", "r"}
ZeroRates == [ch \in FabricChannels |-> [d \in FabricDirs |-> 0]]

\* What as_fabric_rate_capture can hand back: the bytes sent and received
\* per channel since the capture before.
FabricCaptures ==
    { ZeroRates,
      [ch \in FabricChannels |->
          [d \in FabricDirs |-> IF ch = "bulk" THEN (IF d = "s" THEN 9 ELSE 7) ELSE 3]],
      [ch \in FabricChannels |->
          [d \in FabricDirs |-> IF ch = "rw" THEN (IF d = "s" THEN 1 ELSE 11) ELSE 5]] }

TickerAsleep(last_time) ==
    [pc |-> "sleep", last_time |-> last_time, delta_time |-> 0, rate |-> ZeroRates]

tickerFrameUnchanged == <<workerVars, smdVars, fdsVars, dispVars, memVars, paramVars,
                          regVars, tickVars, clusterVars, quiesceVars, tipVars,
                          nsCfgVars>>
tickerThreadUnchanged == <<tickerFrameUnchanged, nsStatsVars>>

\* The signal that starts the shutdown.
ShutdownStart ==
    /\ ~g_shutdown_started
    /\ g_shutdown_started' = TRUE
    /\ UNCHANGED <<ticker, clock_ns, fabric_rate_stats, ticker_lines, tickerThreadUnchanged>>

\* sleep(1) returns (a signal may cut it short), the clock is read, and the
\* elapsed time is compared with the interval.
TickerWake ==
    /\ ticker.pc = "sleep"
    /\ \E slept \in 1..MaxSleepNs :
           /\ clock_ns + slept <= MaxClockNs
           /\ clock_ns' = clock_ns + slept
           /\ LET curr_time == clock_ns + slept
                  delta_time == curr_time - ticker.last_time
              IN IF delta_time < ticker_interval * NS_PER_SEC
                 THEN ticker' = ticker
                 ELSE ticker' = [ticker EXCEPT !.pc = "elapsed",
                                              !.last_time = curr_time,
                                              !.delta_time = delta_time]
    /\ UNCHANGED <<g_shutdown_started, fabric_rate_stats, ticker_lines,
                   tickerThreadUnchanged>>

\* A ticker that does not look at the flag.
ShutdownSeen_Never(flag) == FALSE

\* if (g_shutdown_started) break;
ShutdownSeen(flag) == flag

\* The shutdown test, and the lines of the frame in front of
\* log_fabric_rate (NODE-ID ... through log_line_heartbeat: seven lines).
TickerFrameStart ==
    /\ ticker.pc = "elapsed"
    /\ IF ShutdownSeen(g_shutdown_started)
       THEN /\ ticker' = [ticker EXCEPT !.pc = "exited"]
            /\ UNCHANGED ticker_lines
       ELSE /\ ticker' = [ticker EXCEPT !.pc = "fabric"]
            /\ ticker_lines' = ticker_lines + 7
    /\ UNCHANGED <<clock_ns, g_shutdown_started, fabric_rate_stats, tickerThreadUnchanged>>

\* A clamp to two seconds.
ClampDtSec_Two(dt_sec) == IF dt_sec < 1 THEN 2 ELSE dt_sec

\* if (dt_sec < 1) dt_sec = 1;
ClampDtSec(dt_sec) == IF dt_sec < 1 THEN 1 ELSE dt_sec

\* log_fabric_rate: the capture, the eight rates, and its line.
LogFabricRate ==
    /\ ticker.pc = "fabric"
    /\ \E rate \in FabricCaptures :
           LET dt_sec == ClampDtSec(ticker.delta_time \div NS_PER_SEC)
           IN /\ fabric_rate_stats' =
                     [ch \in FabricChannels |->
                         [d \in FabricDirs |-> rate[ch][d] \div dt_sec]]
              /\ ticker' = [ticker EXCEPT !.pc = "rest", !.rate = rate]
    /\ ticker_lines' = ticker_lines + 1
    /\ UNCHANGED <<clock_ns, g_shutdown_started, tickerThreadUnchanged>>

\* g_config.n_namespaces, and the namespaces the frame walks.
n_namespaces == 2
TickerNamespaces == 1..n_namespaces

\* a | b on unsigned values.
RECURSIVE BitOr(_, _)
BitOr(a, b) ==
    IF a = 0 THEN b
    ELSE IF b = 0 THEN a
    ELSE (IF a % 2 = 1 \/ b % 2 = 1 THEN 1 ELSE 0) + 2 * BitOr(a \div 2, b \div 2)

\* The counters of one line or-ed together: the value the tests
\* if ((n_a | n_b | ...) == 0) return; compare with zero.
RECURSIVE OrAll(_)
OrAll(counters) ==
    IF counters = <<>> THEN 0 ELSE BitOr(Head(counters), OrAll(Tail(counters)))

Zeros(n) == [i \in 1..n |-> 0]
OneAt(n, at, v) == [i \in 1..n |-> IF i = at THEN v ELSE 0]

\* The node-wide counters of log_line_early_fail (seven) and
\* log_line_batch_index (four), in the order the source reads them.
GStats(early_fail, batch_index) == [early_fail |-> early_fail, batch_index |-> batch_index]
ZeroGStats == GStats(Zeros(7), Zeros(4))

\* The per-origin transaction lines, and how many counters each one tests.
TxnLines == {"client", "xdr-client", "from-proxy", "xdr-from-proxy", "batch-sub",
             "from-proxy-batch-sub", "pi-query", "si-query", "udf-sub", "ops-sub"}
TxnCounters(line) ==
    CASE line = "client" -> 27
      [] line = "xdr-client" -> 7
      [] line = "from-proxy" -> 24
      [] line = "xdr-from-proxy" -> 7
      [] line = "batch-sub" -> 27
      [] line = "from-proxy-batch-sub" -> 24
      [] line = "pi-query" -> 15
      [] line = "si-query" -> 15
      [] line = "udf-sub" -> 10
      [] line = "ops-sub" -> 6
ZeroTxn == [line \in TxnLines |-> Zeros(TxnCounters(line))]

\* What a frame reads of one namespace: the counters of each line in the
\* order the source reads them (migrate: initial tx, initial rx, remaining
\* tx, remaining rx; appeals: remaining tx, active tx, active rx, as signed
\* values), and the two storage settings that select the usage lines.
ZeroNsStats ==
    [tombstones |-> Zeros(6), appeals |-> Zeros(3), migrate |-> Zeros(4),
     txn |-> ZeroTxn, dup_res |-> Zeros(3), retransmits |-> Zeros(13),
     re_repl |-> Zeros(4), special_errors |-> Zeros(4),
     xmem_type |-> "shmem", storage_type |-> "memory"]

\* log_line_early_fail and log_line_batch_index: the lines they write.
GlobalLines(g) ==
    (IF OrAll(g.early_fail) = 0 THEN {} ELSE {"early-fail"})
        \cup (IF OrAll(g.batch_index) = 0 THEN {} ELSE {"batch-index"})

\* log_line_tombstones, log_line_dup_res, log_line_retransmits,
\* log_line_re_repl, log_line_special_errors and the ten per-origin lines:
\* nothing when the counters or-ed together are zero.
CounterLine(name, counters) == IF OrAll(counters) = 0 THEN {} ELSE {name}

\* log_line_appeals.
AppealsLine(appeals) ==
    IF appeals[1] > 0 \/ appeals[2] > 0 \/ appeals[3] > 0 THEN {"appeals"} ELSE {}

\* A migrations line that always reports what remains.
MigrationsLine_Remaining(migrate) == "migrations: remaining"

\* log_line_migrations: one of its two lines, whatever the counters.
MigrationsLine(migrate) ==
    LET initial == migrate[1] + migrate[2]
        remaining == migrate[3] + migrate[4]
    IN IF initial > 0 /\ remaining > 0
       THEN "migrations: remaining"
       ELSE "migrations: complete"

\* log_line_persistent_index_usage.
PersistentIndexLine(xmem_type) ==
    IF xmem_type = "pmem" THEN {"index-pmem-usage"}
    ELSE IF xmem_type = "flash" THEN {"index-flash-usage"}
    ELSE {}

\* log_line_device_usage.
DeviceLine(storage_type) ==
    IF storage_type = "memory" THEN {}
    ELSE IF storage_type = "pmem" THEN {"pmem-usage"}
    ELSE {"device-usage"}

\* The lines the loop of log_ticker_frame writes for one namespace.
NsLines(st) ==
    {"objects"}
        \cup CounterLine("tombstones", st.tombstones)
        \cup AppealsLine(st.appeals)
        \cup {MigrationsLine(st.migrate)}
        \cup {"memory-usage"}
        \cup PersistentIndexLine(st.xmem_type)
        \cup DeviceLine(st.storage_type)
        \cup UNION {CounterLine(line, st.txn[line]) : line \in TxnLines}
        \cup CounterLine("dup-res", st.dup_res)
        \cup CounterLine("retransmits", st.retransmits)
        \cup CounterLine("re-repl", st.re_repl)
        \cup CounterLine("special-errors", st.special_errors)

\* The number of lines written for the namespaces up to n.
RECURSIVE CountLines(_, _)
CountLines(lines, n) ==
    IF n = 0 THEN 0 ELSE Cardinality(lines[n]) + CountLines(lines, n - 1)

\* The rest of the frame: the early-fail and batch-index lines, then the
\* lines of every namespace, and back to sleep.
TickerFrameRest ==
    /\ ticker.pc = "rest"
    /\ ticker' = [ticker EXCEPT !.pc = "sleep"]
    /\ LET lines == [ns \in TickerNamespaces |-> NsLines(ns_stats[ns])]
       IN /\ ns_lines' = lines
          /\ ticker_lines' = ticker_lines + Cardinality(GlobalLines(g_stats))
                                 + CountLines(lines, n_namespaces)
    /\ UNCHANGED <<clock_ns, g_shutdown_started, fabric_rate_stats, g_stats, ns_stats,
                   tickerFrameUnchanged>>

(***************************************************************************)
(* config-set in the namespace context: default-ttl, nsup-period,          *)
(* allow-ttl-without-nsup and the per-set parameters. Calls are serialised *)
(* by g_set_cfg_lock and nothing else writes these fields, so a call is    *)
(* one step.                                                               *)
(***************************************************************************)
MaxCfgNamespaces == 2
CfgNamespaces == 1..MaxCfgNamespaces

\* as_namespace_get_byname found no namespace of that name.
NoNamespace == 0

\* Stand-in for the largest default-ttl, and the largest nsup-period of a
\* run.
MAX_ALLOWED_TTL == 1
MaxNsupPeriod == 1

\* One set name; a set is in the namespace's table or not.
SetNames == {"s"}
NoSets == [n \in SetNames |-> [exists |-> FALSE, eviction_disabled |-> FALSE]]

\* What cf_str_atoi_seconds made of the value.
Seconds(val) == [ok |-> TRUE, val |-> val]
NotSeconds == [ok |-> FALSE, val |-> 0]

\* The "set" parameter: absent, of an illegal length, or a name.
SetAbsent == [sent |-> FALSE, len_ok |-> FALSE, name |-> ""]
SetIllegal == [sent |-> TRUE, len_ok |-> FALSE, name |-> ""]
SetNamed(n) == [sent |-> TRUE, len_ok |-> TRUE, name |-> n]

\* A config-set after as_info_parameter_get: the context, the namespace
\* the id names, the set parameter, and the one parameter with its value as
\* a string and as cf_str_atoi_seconds parsed it.
NsCmd(context, id, set, param, str, seconds) ==
    [context |-> context, id |-> id, set |-> set, param |-> param, str |-> str,
     seconds |-> seconds]

NoNsCmd == NsCmd("", NoNamespace, SetAbsent, "", <<>>, NotSeconds)
NcIdle == [cmd |-> NoNsCmd, reply |-> ""]

\* The fields a call can write, as the call leaves them, and its reply.
NsCfg(ttl, nsup, allow, sets, response) ==
    [default_ttl |-> ttl, nsup_period |-> nsup, allow_ttl_without_nsup |-> allow,
     ns_sets |-> sets, reply |-> response]

\* as_namespace_get_create_set_w_len: the set is there afterwards.
CreateSet(sets, ns, n) == [sets EXCEPT ![ns][n].exists = TRUE]

\* A default-ttl that is stored whatever the namespace's nsup settings.
TtlNeedsNsup_Never(val, ns) == FALSE

\* val != 0 && ns->nsup_period == 0 && ! ns->allow_ttl_without_nsup
TtlNeedsNsup(val, ns) ==
    val # 0 /\ nsup_period[ns] = 0 /\ ~allow_ttl_without_nsup[ns]

\* strncmp(context, "true", 4) == 0 || strncmp(context, "yes", 3) == 0, then
\* the same for "false" and "no".
BoolParam(s) ==
    IF IsTrue(s) THEN "true"
    ELSE IF IsFalse(s) THEN "false"
    ELSE "error"

\* info_command_config_set_threadsafe for the namespace context.
NsConfigSet(cmd) ==
    LET ns == cmd.id
        same(response) == NsCfg(default_ttl, nsup_period, allow_ttl_without_nsup,
                                ns_sets, response)
        created == CreateSet(ns_sets, ns, cmd.set.name)
        with_set(response) == NsCfg(default_ttl, nsup_period, allow_ttl_without_nsup,
                                    created, response)
        flag == BoolParam(cmd.str)
    IN
    IF cmd.context # "namespace" THEN same("error")
    ELSE IF ns = NoNamespace THEN same("error")
    ELSE IF cmd.set.sent
    THEN IF ~cmd.set.len_ok THEN same("error")
         ELSE IF cmd.param = "disable-eviction"
         THEN IF flag = "error" THEN with_set("error")
              ELSE NsCfg(default_ttl, nsup_period, allow_ttl_without_nsup,
                         [created EXCEPT ![ns][cmd.set.name].eviction_disabled =
                                             (flag = "true")],
                         "ok")
         ELSE with_set("error")
    ELSE IF cmd.param = "default-ttl"
    THEN IF ~cmd.seconds.ok THEN same("error")
         ELSE IF cmd.seconds.val > MAX_ALLOWED_TTL THEN same("error")
         ELSE IF TtlNeedsNsup(cmd.seconds.val, ns) THEN same("error")
         ELSE NsCfg([default_ttl EXCEPT ![ns] = cmd.seconds.val], nsup_period,
                    allow_ttl_without_nsup, ns_sets, "ok")
    ELSE IF cmd.param = "nsup-period"
    THEN IF ~cmd.seconds.ok THEN same("error")
         ELSE NsCfg(default_ttl, [nsup_period EXCEPT ![ns] = cmd.seconds.val],
                    allow_ttl_without_nsup, ns_sets, "ok")
    ELSE IF cmd.param = "allow-ttl-without-nsup"
    THEN IF flag = "error" THEN same("error")
         ELSE NsCfg(default_ttl, nsup_period,
                    [allow_ttl_without_nsup EXCEPT ![ns] = (flag = "true")],
                    ns_sets, "ok")
    ELSE same("error")

nsCfgUnchanged == <<workerVars, smdVars, fdsVars, dispVars, memVars, paramVars, regVars,
                    tickVars, clusterVars, quiesceVars, tipVars, tickerThreadVars,
                     nsStatsVars>>

\* One config-set of the namespace context, from its lock to its unlock.
NsConfigSetCall(cmd) ==
    LET after == NsConfigSet(cmd)
    IN /\ default_ttl' = after.default_ttl
       /\ nsup_period' = after.nsup_period
       /\ allow_ttl_without_nsup' = after.allow_ttl_without_nsup
       /\ ns_sets' = after.ns_sets
       /\ nc' = [cmd |-> cmd, reply |-> after.reply]
       /\ UNCHANGED nsCfgUnchanged

(***************************************************************************)
(* Connection counters and the two observers that derive the open gauges.  *)
(***************************************************************************)
ConnClasses == {"proto", "heartbeat", "fabric"}
Observers == {"info_get_stats", "log_line_fds"}

\* Connections opened per class in a run.
MaxOpened == 2
\* The counters are unsigned; CounterBits stands in for their 64 bits.
CounterBits == 4
CounterMod == 2 ^ CounterBits

\* Unsigned subtraction opened - closed.
UnsignedSub(a, b) == (a - b + CounterMod) % CounterMod

\* The loads in program order: the three closed counters, then the three
\* opened counters.
LoadOrder_OpenedFirst ==
    << <<"opened", "proto">>, <<"opened", "heartbeat">>, <<"opened", "fabric">>,
       <<"closed", "proto">>, <<"closed", "heartbeat">>, <<"closed", "fabric">> >>

LoadOrder ==
    << <<"closed", "proto">>, <<"closed", "heartbeat">>, <<"closed", "fabric">>,
       <<"opened", "proto">>, <<"opened", "heartbeat">>, <<"opened", "fabric">> >>

ZeroCounts == [k \in ConnClasses |-> 0]

ObsIdle == [who |-> "", pc |-> "idle", n |-> 0, closed |-> ZeroCounts,
            opened |-> ZeroCounts, open |-> ZeroCounts]

fdsUnchanged == <<workerVars, smdVars, dispVars, svcVars>>

\* A connection of class k is accepted: its opened counter is incremented.
ConnOpen(k) ==
    /\ conns_opened[k] < MaxOpened
    /\ conns_opened' = [conns_opened EXCEPT ![k] = (@ + 1) % CounterMod]
    /\ UNCHANGED <<conns_closed, obs, fdsUnchanged>>

\* An open connection of class k is closed: its closed counter is
\* incremented, after the opened increment of the same connection.
ConnClose(k) ==
    /\ conns_closed[k] < conns_opened[k]
    /\ conns_closed' = [conns_closed EXCEPT ![k] = (@ + 1) % CounterMod]
    /\ UNCHANGED <<conns_opened, obs, fdsUnchanged>>

\* info_get_stats or log_line_fds is entered. The two only read the
\* counters, so one observation at a time is followed.
ObsEnter(who) ==
    /\ obs.pc \in {"idle", "done"}
    /\ obs' = [ObsIdle EXCEPT !.who = who, !.pc = "loading"]
    /\ UNCHANGED <<conns_opened, conns_closed, fdsUnchanged>>

\* The observer's next load.
ObsLoad ==
    /\ obs.pc = "loading"
    /\ obs.n < Len(LoadOrder)
    /\ LET ld == LoadOrder[obs.n + 1]
       IN obs' = IF ld[1] = "closed"
                 THEN [obs EXCEPT !.n = @ + 1, !.closed[ld[2]] = conns_closed[ld[2]]]
                 ELSE [obs EXCEPT !.n = @ + 1, !.opened[ld[2]] = conns_opened[ld[2]]]
    /\ UNCHANGED <<conns_opened, conns_closed, fdsUnchanged>>

\* n_<class>_fds_open = opened - closed for the three classes, as published.
ObsCompute ==
    /\ obs.pc = "loading"
    /\ obs.n = Len(LoadOrder)
    /\ obs' = [obs EXCEPT !.pc = "done",
                          !.open = [k \in ConnClasses |->
                                       UnsignedSub(obs.opened[k], obs.closed[k])]]
    /\ UNCHANGED <<conns_opened, conns_closed, fdsUnchanged>>

(***************************************************************************)
(* The registry and the dispatcher: info_all and info_some.                *)
(* The request body is a sequence of characters without NUL bytes; the     *)
(* reply is a sequence of strings, one per character the dispatcher        *)
(* appends and one per handler output or message.                          *)
(***************************************************************************)
MaxBodyLen == 6

EOL == "\n"
SEP == "\t"
TREE_SEP == "/"
BodyChars == {"a", "b", TREE_SEP, ":", EOL}

Bodies == SeqsUpTo(BodyChars, MaxBodyLen)

\* Registration: a known name keeps its entry (only the function or value
\* is replaced), a new name goes to the head of its list.
\* The first entry of a list with the name; 0 when there is none.
RECURSIVE NameIndex(_, _, _)
NameIndex(head, name, i) ==
    IF i > Len(head) THEN 0
    ELSE IF head[i].name = name THEN i
    ELSE NameIndex(head, name, i + 1)

\* value_sz == 0 || value == 0: the delete case of as_info_set_buf.
NoValue == ""

as_info_set_buf(head, name, value, def) ==
    LET i == NameIndex(head, name, 1)
    IN IF value = NoValue
       THEN IF i = 0 THEN head
            ELSE SubSeq(head, 1, i - 1) \o SubSeq(head, i + 1, Len(head))
       ELSE IF i # 0 THEN [head EXCEPT ![i].value = value]
            ELSE <<[name |-> name, def |-> def, value |-> value]>> \o head

\* A registration that never looks for the name.
as_info_set_dynamic_NoSearch(head, name, gv_fn, def) ==
    <<[name |-> name, def |-> def, value_fn |-> gv_fn]>> \o head

as_info_set_dynamic(head, name, gv_fn, def) ==
    LET i == NameIndex(head, name, 1)
    IN IF i # 0 THEN [head EXCEPT ![i].value_fn = gv_fn]
       ELSE <<[name |-> name, def |-> def, value_fn |-> gv_fn]>> \o head

as_info_set_tree(head, name, gv_fn) ==
    LET i == NameIndex(head, name, 1)
    IN IF i # 0 THEN [head EXCEPT ![i].tree_fn = gv_fn]
       ELSE <<[name |-> name, tree_fn |-> gv_fn]>> \o head

as_info_set_command(head, name, command_fn, required_perm) ==
    LET i == NameIndex(head, name, 1)
    IN IF i # 0 THEN [head EXCEPT ![i].command_fn = command_fn]
       ELSE <<[name |-> name, command_fn |-> command_fn,
               required_perm |-> required_perm]>> \o head

\* Two registries as_info_init-style registration can build: names shared
\* between the lists, default and non-default entries in both value lists.
Registries ==
    { [static |-> as_info_set_buf(as_info_set_buf(<<>>, <<"a">>, "value", TRUE),
                                  <<"a", "b">>, "value", FALSE),
       dynamic |-> as_info_set_dynamic(as_info_set_dynamic(as_info_set_dynamic(<<>>,
                       <<"b">>, "value_fn", TRUE), <<"a">>, "value_fn", TRUE),
                       <<"b", "b">>, "value_fn", FALSE),
       tree |-> as_info_set_tree(<<>>, <<"a">>, "tree_fn"),
       command |-> as_info_set_command(as_info_set_command(<<>>,
                       <<"a">>, "command_fn", "PERM_NONE"),
                       <<"b">>, "command_fn", "PERM_SINDEX_ADMIN")],
      [static |-> as_info_set_buf(as_info_set_buf(<<>>, <<"b">>, "value", FALSE),
                                  <<"b", "a">>, "value", TRUE),
       dynamic |-> as_info_set_dynamic(as_info_set_dynamic(<<>>,
                       <<"a">>, "value_fn", FALSE), <<"b">>, "value_fn", TRUE),
       tree |-> as_info_set_tree(as_info_set_tree(<<>>, <<"b">>, "tree_fn"),
                                 <<"a">>, "tree_fn"),
       command |-> as_info_set_command(as_info_set_command(<<>>,
                       <<"b">>, "command_fn", "PERM_UDF_ADMIN"),
                       <<"a">>, "command_fn", "PERM_LOGGING_CTRL")] }

\* Registration calls. Each runs under g_info_lock from lock to unlock, so a
\* call is one step. registered keeps, per list and name, the value or
\* function of the latest call (NoValue after a static delete or before any
\* call).
RegLists == {"static", "dynamic", "tree", "command"}
RegNames == {<<"a">>, <<"b">>}
StaticValues == {"value", "value2"}
ValueFns == {"value_fn", "value_fn2"}
TreeFns == {"tree_fn", "tree_fn2"}
CommandFns == {"command_fn", "command_fn2"}
RequiredPerms == {"PERM_SINDEX_ADMIN"}

NoneRegistered == [l \in RegLists |-> [n \in RegNames |-> NoValue]]

regUnchanged == <<workerVars, smdVars, fdsVars, memVars, paramVars, tickVars, clusterVars,
                  quiesceVars,
                  req, c, tok, db, calls, dpc, hdr, out_sz,
                   tipVars,
                   tickerThreadVars,
                   nsCfgVars,
                   nsStatsVars>>

SetBuf(name, value, def) ==
    /\ static_head' = as_info_set_buf(static_head, name, value, def)
    /\ registered' = [registered EXCEPT !["static"][name] = value]
    /\ UNCHANGED <<dynamic_head, tree_head, command_head, regUnchanged>>

SetDynamic(name, gv_fn, def) ==
    /\ dynamic_head' = as_info_set_dynamic(dynamic_head, name, gv_fn, def)
    /\ registered' = [registered EXCEPT !["dynamic"][name] = gv_fn]
    /\ UNCHANGED <<static_head, tree_head, command_head, regUnchanged>>

SetTree(name, gv_fn) ==
    /\ tree_head' = as_info_set_tree(tree_head, name, gv_fn)
    /\ registered' = [registered EXCEPT !["tree"][name] = gv_fn]
    /\ UNCHANGED <<static_head, dynamic_head, command_head, regUnchanged>>

SetCommand(name, command_fn, required_perm) ==
    /\ command_head' = as_info_set_command(command_head, name, command_fn,
                                           required_perm)
    /\ registered' = [registered EXCEPT !["command"][name] = command_fn]
    /\ UNCHANGED <<static_head, dynamic_head, tree_head, regUnchanged>>

\* The connection's security state: the result of as_security_check_auth and
\* the permissions its principal holds.
Conn(auth_result, perms) == [auth_result |-> auth_result, perms |-> perms]

Conns ==
    { Conn("AS_SEC_ERR_NOT_AUTHENTICATED", {}),
      Conn("AS_OK", {}),
      Conn("AS_OK", {"PERM_SINDEX_ADMIN"}),
      Conn("AS_OK", {"PERM_SINDEX_ADMIN", "PERM_UDF_ADMIN", "PERM_LOGGING_CTRL"}) }

as_security_check_auth(fd_h) == fd_h.auth_result

as_security_check_info_cmd(fd_h, required_perm) ==
    IF required_perm = "PERM_NONE" \/ required_perm \in fd_h.perms
    THEN "AS_OK"
    ELSE "AS_SEC_ERR_ROLE_VIOLATION"

\* append_sec_err_str
append_sec_err_str(result, cmd_perm) ==
    CASE result = "AS_SEC_ERR_NOT_AUTHENTICATED" ->
             <<"ERROR:", result, ":not authenticated">>
      [] result = "AS_SEC_ERR_ROLE_VIOLATION" /\ cmd_perm = "PERM_SINDEX_ADMIN" ->
             <<"FAIL:", result, ":", "role violation">>
      [] result = "AS_SEC_ERR_ROLE_VIOLATION" /\ cmd_perm = "PERM_UDF_ADMIN" ->
             <<"error=role_violation">>
      [] result = "AS_SEC_ERR_ROLE_VIOLATION" -> <<"ERROR:", result, ":role violation">>
      [] OTHER -> <<"ERROR:", result, ":unexpected security error">>

\* cf_dyn_buf_append_*: the reply grows at its end.
DynBufPrepend(buf, s) == s \o buf

DynBufAppend(buf, s) == buf \o s

\* The test "s->def == true" of info_all.
IsDefault_Always(e) == TRUE

IsDefault(e) == e.def = TRUE

\* The test "result == AS_OK" before a command handler is called.
CheckPassed_Always(result) == TRUE

CheckPassed(result) == result = "AS_OK"

Call(kind, name, arg) == [kind |-> kind, name |-> name, arg |-> arg]

\* info_all's walk over the static list, then over the dynamic list; out is
\* the pair of the reply and the handler invocations.
RECURSIVE InfoAllStatic(_, _)
InfoAllStatic(s, out) ==
    IF s = <<>> THEN out
    ELSE InfoAllStatic(Tail(s),
             IF IsDefault(Head(s))
             THEN [out EXCEPT !.db =
                      DynBufAppend(@, Head(s).name \o <<SEP, Head(s).value, EOL>>)]
             ELSE out)

RECURSIVE InfoAllDynamic(_, _)
InfoAllDynamic(d, out) ==
    IF d = <<>> THEN out
    ELSE InfoAllDynamic(Tail(d),
             IF IsDefault(Head(d))
             THEN [db |-> DynBufAppend(out.db, Head(d).name \o <<SEP, Head(d).value_fn, EOL>>),
                   calls |-> Append(out.calls, Call("value_fn", Head(d).name, <<>>))]
             ELSE out)

\* First entry of a list with the given name, <<>> when there is none.
RECURSIVE Find(_, _)
Find(head, name) ==
    IF head = <<>> THEN <<>>
    ELSE IF Head(head).name = name THEN <<Head(head)>>
    ELSE Find(Tail(head), name)

\* A lookup that tries the dynamic list before the static list.
InfoSomeLookup_DynamicFirst(name, out) ==
    LET s == Find(static_head, name)
        d == Find(dynamic_head, name)
        slash == strchr(name, TREE_SEP)
        root == SubSeq(name, 1, slash - 1)
        branch == SubSeq(name, slash + 1, Len(name))
        t == Find(tree_head, root)
    IN
    IF d # <<>>
    THEN [db |-> DynBufAppend(out.db, d[1].name \o <<SEP, d[1].value_fn, EOL>>),
          calls |-> Append(out.calls, Call("value_fn", d[1].name, <<>>))]
    ELSE IF s # <<>>
    THEN [out EXCEPT !.db = DynBufAppend(@, name \o <<SEP, s[1].value, EOL>>)]
    ELSE IF slash # 0 /\ t # <<>>
    THEN [db |-> DynBufAppend(out.db,
                     t[1].name \o <<TREE_SEP>> \o branch \o <<SEP, t[1].tree_fn, EOL>>),
          calls |-> Append(out.calls, Call("tree_fn", t[1].name, branch))]
    ELSE out

\* The EOL branch of info_some for the name just terminated.
InfoSomeLookup(name, out) ==
    LET s == Find(static_head, name)
        d == Find(dynamic_head, name)
        slash == strchr(name, TREE_SEP)
        root == SubSeq(name, 1, slash - 1)
        branch == SubSeq(name, slash + 1, Len(name))
        t == Find(tree_head, root)
    IN
    IF s # <<>>
    THEN [out EXCEPT !.db = DynBufAppend(@, name \o <<SEP, s[1].value, EOL>>)]
    ELSE IF d # <<>>
    THEN [db |-> DynBufAppend(out.db, d[1].name \o <<SEP, d[1].value_fn, EOL>>),
          calls |-> Append(out.calls, Call("value_fn", d[1].name, <<>>))]
    ELSE IF slash # 0 /\ t # <<>>
    THEN [db |-> DynBufAppend(out.db,
                     t[1].name \o <<TREE_SEP>> \o branch \o <<SEP, t[1].tree_fn, EOL>>),
          calls |-> Append(out.calls, Call("tree_fn", t[1].name, branch))]
    ELSE out

\* The command branch of info_some once the parameters are terminated.
InfoSomeCommand(fd_h, name, param, out) ==
    LET cmd == Find(command_head, name)
        result == as_security_check_info_cmd(fd_h, cmd[1].required_perm)
    IN
    IF cmd = <<>> THEN out
    ELSE IF CheckPassed(result)
    THEN [db |-> DynBufAppend(out.db,
                     name \o <<":">> \o param \o <<SEP, cmd[1].command_fn, EOL>>),
          calls |-> Append(out.calls, Call("command_fn", cmd[1].name, param))]
    ELSE [out EXCEPT !.db =
             DynBufAppend(@, name \o <<":">> \o param \o <<SEP>>
                                \o append_sec_err_str(result, cmd[1].required_perm)
                                \o <<EOL>>)]

\* "while (*c != EOL && c < buf_lim-1) c++" from the position of the ':',
\* which holds a NUL by then.
RECURSIVE ScanParams(_, _, _)
ScanParams(body, from, i) ==
    IF (i = from \/ body[i] # EOL) /\ i < Len(body)
    THEN ScanParams(body, from, i + 1)
    ELSE i

NoReq == [body |-> <<>>, sz |-> 0, fd_h |-> Conn("AS_OK", {})]

dispUnchanged == <<workerVars, smdVars, fdsVars, svcVars>>

\* "uint64_t h = 0" appended as the space for the header.
ZeroHeader == [i \in 1..8 |-> 0]

\* A transaction reaches thr_info_fn's dispatch: the reply holds the space
\* for the header and an empty body.
InfoReceiveOf(bodies) ==
    /\ dpc = "idle"
    /\ \E body \in bodies, fd_h \in Conns :
           req' = [body |-> body, sz |-> Len(body), fd_h |-> fd_h]
    /\ c' = 1
    /\ tok' = 1
    /\ db' = <<>>
    /\ hdr' = ZeroHeader
    /\ calls' = <<>>
    /\ dpc' = "dispatch"
    /\ UNCHANGED <<registryVars, dispUnchanged>>

InfoReceive == InfoReceiveOf(Bodies)

\* info_all, called for a body of size zero.
InfoAll ==
    /\ dpc = "dispatch"
    /\ req.sz = 0
    /\ LET auth_result == as_security_check_auth(req.fd_h)
           out == InfoAllDynamic(dynamic_head,
                      InfoAllStatic(static_head, [db |-> db, calls |-> calls]))
       IN IF auth_result # "AS_OK"
          THEN /\ db' = DynBufAppend(db, append_sec_err_str(auth_result, "PERM_NONE")
                                            \o <<EOL>>)
               /\ calls' = calls
          ELSE /\ db' = out.db
               /\ calls' = out.calls
    /\ dpc' = "done"
    /\ UNCHANGED <<registryVars, hdr, req, c, tok, dispUnchanged>>

\* info_some up to its loop: the authentication check.
InfoSomeEnter ==
    /\ dpc = "dispatch"
    /\ req.sz # 0
    /\ LET auth_result == as_security_check_auth(req.fd_h)
       IN IF auth_result # "AS_OK"
          THEN /\ db' = DynBufAppend(db, append_sec_err_str(auth_result, "PERM_NONE")
                                            \o <<EOL>>)
               /\ dpc' = "done"
          ELSE /\ db' = db
               /\ dpc' = "scan"
    /\ UNCHANGED <<registryVars, hdr, req, c, tok, calls, dispUnchanged>>

\* One iteration of info_some's loop, at the character under the cursor.
InfoSomeStep ==
    /\ dpc = "scan"
    /\ c <= req.sz
    /\ LET body == req.body
           name == SubSeq(body, tok, c - 1)
           e == ScanParams(body, c, c)
           param == SubSeq(body, c + 1, e - 1)
           out == [db |-> db, calls |-> calls]
       IN
       IF body[c] = EOL
       THEN /\ db' = InfoSomeLookup(name, out).db
            /\ calls' = InfoSomeLookup(name, out).calls
            /\ tok' = c + 1
            /\ c' = c + 1
            /\ dpc' = "scan"
       ELSE IF body[c] = ":"
       THEN IF e = c \/ body[e] # EOL
            THEN /\ dpc' = "done"
                 /\ tok' = c + 1
                 /\ c' = e
                 /\ UNCHANGED <<db, calls>>
            ELSE /\ db' = InfoSomeCommand(req.fd_h, name, param, out).db
                 /\ calls' = InfoSomeCommand(req.fd_h, name, param, out).calls
                 /\ tok' = e + 1
                 /\ c' = e + 1
                 /\ dpc' = "scan"
       ELSE /\ c' = c + 1
            /\ UNCHANGED <<tok, db, calls, dpc>>
    /\ UNCHANGED <<registryVars, hdr, req, dispUnchanged>>

\* The loop ends at buf_lim.
InfoSomeReturn ==
    /\ dpc = "scan"
    /\ c > req.sz
    /\ dpc' = "done"
    /\ UNCHANGED <<registryVars, hdr, req, c, tok, db, calls, dispUnchanged>>

\* Bytes one piece of the reply occupies: a handler output or static value
\* has out_sz bytes, a security result code prints as two digits, anything
\* else is literal text.
PieceBytes(piece) ==
    IF piece \in {"value", "value_fn", "tree_fn", "command_fn"} THEN out_sz
    ELSE IF piece \in {"AS_SEC_ERR_NOT_AUTHENTICATED", "AS_SEC_ERR_ROLE_VIOLATION"} THEN 2
    ELSE Len(piece)

RECURSIVE BufBytes(_)
BufBytes(buf) == IF buf = <<>> THEN 0 ELSE PieceBytes(Head(buf)) + BufBytes(Tail(buf))

\* db.used_sz: the header space and the body.
UsedSz == 8 + BufBytes(db)

\* (sz >> shift) & 0xff
ByteOf(sz, shift) == (sz \div (2 ^ shift)) % 256

HeaderBytes_LittleEndian(sz) ==
    <<2, 1, 0, 0, ByteOf(sz, 0), ByteOf(sz, 8), ByteOf(sz, 16), ByteOf(sz, 24)>>

\* db.buf[0] = 2, db.buf[1] = 1, db.buf[4..7] = sz from its bits 24..31 down
\* to its bits 0..7; bytes 2 and 3 keep the zeroes of h.
HeaderBytes(sz) ==
    <<2, 1, hdr[3], hdr[4], ByteOf(sz, 24), ByteOf(sz, 16), ByteOf(sz, 8), ByteOf(sz, 0)>>

\* thr_info_fn after the dispatcher returned: the header is patched.
InfoPatchHeader ==
    /\ dpc = "done"
    /\ hdr' = HeaderBytes(UsedSz - 8)
    /\ dpc' = "framed"
    /\ UNCHANGED <<registryVars, req, c, tok, db, calls, dispUnchanged>>

(***************************************************************************)
(* Initial states.                                                         *)
(***************************************************************************)
\* as_info_init: the queue is created empty and g_config.n_info_threads
\* workers are started; the namespace pair is consistent at startup.
WorkerInit(devices) ==
    /\ g_info_work_q = <<>>
    /\ n_info_threads \in 1..MAX_INFO_THREADS
    /\ n_idle = n_info_threads
    /\ pc = [r \in Reqs |-> "unsent"]
    /\ proto = [r \in Reqs |-> NoProto]
    /\ fd_state = [r \in Reqs |-> InUse]
    /\ info_complete = 0
    /\ reply = [r \in Reqs |-> ""]
    /\ info_threads_log = [from |-> 0, to |-> 0]
    /\ g_set_cfg_lock = NULL
    /\ device_count \in devices
    /\ storage_max_write_cache = DEFAULT_MAX_WRITE_CACHE
    /\ storage_max_write_q = MaxWriteQ(DEFAULT_MAX_WRITE_CACHE)
    /\ rd = RdIdle
    /\ info_hist_enabled \in BOOLEAN
    /\ info_hist = {}
    /\ hist_epoch = 0
    /\ seen_epoch = [r \in Reqs |-> 0]

\* The parts of the server a specification leaves alone stay as they start.
WorkerIdle ==
    /\ WorkerInit({1})
    /\ n_info_threads = 1
    /\ info_hist_enabled = FALSE

MemQuiet ==
    /\ memory_size = 1
    /\ ms = MsIdle

ParamQuiet == pg = PgIdle

RegQuiet == registered = NoneRegistered

TickQuiet ==
    /\ ticker_interval = 10
    /\ tk = TkIdle

ClusterQuiet ==
    /\ cluster = [key |-> 1, migrations_allowed |-> TRUE, size |-> 1, remaining |-> 0]
    /\ cs = CsIdle

QuiesceQuiet ==
    /\ pending_quiesce = [ns \in Namespaces |-> FALSE]
    /\ qcfg = [enterprise |-> FALSE, stay_quiesced |-> FALSE]
    /\ qc = QcIdle

TipQuiet ==
    /\ tip = TipIdle
    /\ hb_mesh_seeds = {}

TickerThreadQuiet ==
    /\ ticker = TickerAsleep(0)
    /\ clock_ns = 0
    /\ g_shutdown_started = FALSE
    /\ fabric_rate_stats = ZeroRates
    /\ ticker_lines = 0

NsCfgQuiet ==
    /\ default_ttl = [ns \in CfgNamespaces |-> 0]
    /\ nsup_period = [ns \in CfgNamespaces |-> 0]
    /\ allow_ttl_without_nsup = [ns \in CfgNamespaces |-> FALSE]
    /\ ns_sets = [ns \in CfgNamespaces |-> NoSets]
    /\ nc = NcIdle

NsStatsQuiet ==
    /\ g_stats = ZeroGStats
    /\ ns_stats = [ns \in TickerNamespaces |-> ZeroNsStats]
    /\ ns_lines = [ns \in TickerNamespaces |-> {}]

SvcQuiet ==
    /\ MemQuiet /\ ParamQuiet /\ RegQuiet /\ TickQuiet /\ ClusterQuiet /\ QuiesceQuiet
    /\ TipQuiet
    /\ TickerThreadQuiet
    /\ NsCfgQuiet
    /\ NsStatsQuiet

WorkerQuiet == WorkerIdle /\ SvcQuiet

SindexQuiet ==
    /\ smd_items = <<>>
    /\ sx = [w \in SxWorkers |-> SxIdle]

FdsQuiet ==
    /\ conns_opened = ZeroCounts
    /\ conns_closed = ZeroCounts
    /\ obs = ObsIdle

DispQuiet ==
    /\ static_head = <<>>
    /\ dynamic_head = <<>>
    /\ tree_head = <<>>
    /\ command_head = <<>>
    /\ req = NoReq
    /\ c = 1
    /\ tok = 1
    /\ db = <<>>
    /\ calls = <<>>
    /\ dpc = "idle"
    /\ hdr = ZeroHeader
    /\ out_sz = 1

NonWorkerInit == SindexQuiet /\ FdsQuiet /\ DispQuiet /\ SvcQuiet

(***************************************************************************)
(* SpecPool: the worker pool under lookups and config-set info-threads.    *)
(***************************************************************************)
InitPool == WorkerInit({1}) /\ NonWorkerInit

\* What one worker does between popping a transaction and popping again.
PoolWorkerStep(r) ==
    \/ PopRequest(r)
    \/ CfgLock(r)
    \/ ShrinkPush(r)
    \/ ShrinkDec(r)
    \/ GrowCreate(r)
    \/ GrowInc(r)
    \/ CfgUnlock(r)
    \/ Send(r)
    \/ HistFlag(r)
    \/ HistInsert(r)

NextPool ==
    \/ \E r \in Reqs : \E p \in LookupProtos \cup InfoThreadsProtos : Submit(r, p)
    \/ PopTerminator
    \/ \E r \in Reqs : PoolWorkerStep(r)

SpecPool == InitPool /\ [][NextPool]_vars

\* The same pool under fewer distinct requests: a lookup, a rejected
\* info-threads, a shrink to one worker and a growth to the limit.
NextPoolLive ==
    \/ \E r \in Reqs : \E p \in LookupProtos \cup ExtremeInfoThreadsProtos : Submit(r, p)
    \/ PopTerminator
    \/ \E r \in Reqs : PoolWorkerStep(r)

\* Every thread that can run does run: a worker is a running OS thread, the
\* queue wakes a blocked worker when an item arrives, and the mutex is handed
\* to a waiter when it is released.
FairSpecPool ==
    /\ InitPool
    /\ [][NextPoolLive]_vars
    /\ WF_vars(PopTerminator)
    /\ \A r \in Reqs : WF_vars(PoolWorkerStep(r))

(***************************************************************************)
(* Claims on the worker pool.                                              *)
(***************************************************************************)
InResize == {"shrink_push", "shrink_dec", "grow_create", "grow_inc"}

ResizeInProgress == \E r \in Reqs : pc[r] \in InResize

\* info_set_num_info_threads has returned in the worker of transaction r.
ResizeReturned(r) == pc[r] = "cfg_ok" /\ proto[r].cmd = "info-threads"

\* C1: when a call of info_set_num_info_threads(n) has returned,
\* g_config.n_info_threads equals n; and whenever no call is part-way through
\* and every terminator that was queued has been dequeued, the number of
\* live thr_info_fn workers equals g_config.n_info_threads.
C1_PoolResizeSettles ==
    /\ \A r \in Reqs : ResizeReturned(r) => n_info_threads = proto[r].n
    /\ (~ResizeInProgress /\ Terminators = 0) => LiveWorkers = n_info_threads

\* A shrinking call has returned and its terminators are all consumed.
C1_Witness ==
    \E r \in Reqs :
        /\ ResizeReturned(r)
        /\ info_threads_log.from > info_threads_log.to + 1
        /\ Terminators = 0
        /\ LiveWorkers = proto[r].n

\* C2: every transaction that is in the work queue or held by a worker,
\* whenever that is (in particular while info-threads is being reduced), is
\* eventually processed to the end of thr_info_fn's loop body.
C2_ShrinkLosesNoWork ==
    \A r \in Reqs : (pc[r] \notin {"unsent", "done"}) ~> (pc[r] = "done")

\* info-threads is being reduced while another transaction waits in the queue,
\* ahead of the terminator.
C2_Witness ==
    \E r1, r2 \in Reqs :
        /\ pc[r1] = "shrink_dec"
        /\ g_info_work_q = <<r2, NULL>>

\* Positions inside info_command_config_set_threadsafe.
InThreadsafe == InHandler \ {"cfg_lock"}

\* C5: at most one worker is inside info_command_config_set_threadsafe, and
\* it is the one that holds g_set_cfg_lock.
C5_ConfigSetExclusive ==
    /\ Cardinality({r \in Reqs : pc[r] \in InThreadsafe}) <= 1
    /\ \A r \in Reqs : pc[r] \in InThreadsafe => g_set_cfg_lock = r

\* One worker is inside while another waits for the mutex.
C5_Witness ==
    \E r1, r2 \in Reqs :
        /\ pc[r1] \in InResize
        /\ pc[r2] = "cfg_lock"

(***************************************************************************)
(* SpecCache: config-set max-write-cache against a lock-free reader of     *)
(* (storage_max_write_cache, storage_max_write_q).                         *)
(***************************************************************************)
InitCache == WorkerInit({1, 2}) /\ NonWorkerInit

CacheWorkerStep(r) ==
    \/ PopRequest(r)
    \/ CfgLock(r)
    \/ MwcStoreCache(r)
    \/ MwcStoreQ(r)
    \/ CfgUnlock(r)
    \/ Send(r)
    \/ HistFlag(r)
    \/ HistInsert(r)

NextCache ==
    \/ \E r \in Reqs : \E p \in LookupProtos \cup MaxWriteCacheProtos : Submit(r, p)
    \/ \E r \in Reqs : CacheWorkerStep(r)
    \/ RdFirst
    \/ RdSecond

SpecCache == InitCache /\ [][NextCache]_vars

\* C4: a lock-free reader that has loaded both fields holds a pair whose
\* queue length is the one derived from the max-write-cache it saw (both old
\* or both new).
C4_NoTornPair == rd.pc = "done" => rd.q = MaxWriteQ(rd.cache)

(***************************************************************************)
(* SpecHist: config-set enable-hist-info against the workers recording     *)
(* into info_hist.                                                         *)
(***************************************************************************)
InitHist == WorkerInit({1}) /\ NonWorkerInit

HistWorkerStep(r) ==
    \/ PopRequest(r)
    \/ CfgLock(r)
    \/ HistOnClear(r)
    \/ HistOnFlag(r)
    \/ HistOffFlag(r)
    \/ HistOffClear(r)
    \/ CfgUnlock(r)
    \/ Send(r)
    \/ HistFlag(r)
    \/ HistInsert(r)

NextHist ==
    \/ \E r \in Reqs : \E p \in LookupProtos \cup HistInfoProtos : Submit(r, p)
    \/ \E r \in Reqs : HistWorkerStep(r)

SpecHist == InitHist /\ [][NextHist]_vars

\* A config-set on enable-hist-info holds the mutex.
ToggleInProgress ==
    \E r \in Reqs : g_set_cfg_lock = r /\ proto[r].cmd = "enable-hist-info"

\* C6: whenever enable-hist-info is false and no config-set on it is in
\* progress, info_hist is empty; and whenever it is true, every data point in
\* info_hist was recorded by a worker that read the flag during the current
\* enablement (none is left from a previous enablement).
C6_HistNeverStale ==
    /\ (~info_hist_enabled /\ ~ToggleInProgress) => info_hist = {}
    /\ (info_hist_enabled /\ ~ToggleInProgress) =>
            \A r \in info_hist : seen_epoch[r] = hist_epoch

(***************************************************************************)
(* SpecCreate: concurrent sindex-create handlers over the sindex SMD       *)
(* module. Each handler runs one command; the module starts from a store   *)
(* earlier commands can have left behind.                                  *)
(***************************************************************************)
DefKey(ns, type) ==
    as_sindex_build_smd_key(ns, NULLSTR, B_x, NULLSTR, ".",
                            as_sindex_ktype_from_string(type))

InitialSmdStores ==
    { <<>>,
      <<SmdItem(DefKey(NS_a, S_numeric), N_i)>>,
      <<SmdItem(DefKey(NS_a, S_numeric), NULLSTR)>>,
      <<SmdItem(DefKey(NS_ab, S_numeric), N_i)>>,
      <<SmdItem(DefKey(NS_a, S_numeric), N_i), SmdItem(DefKey(NS_a, S_string), N_i)>>,
      <<SmdItem(DefKey(NS_a, S_numeric), N_i), SmdItem(DefKey(NS_a, S_string), N_j)>> }

SindexInit ==
    /\ smd_items \in InitialSmdStores
    /\ sx = [w \in SxWorkers |-> SxIdle]

InitCreate == WorkerQuiet /\ SindexInit /\ FdsQuiet /\ DispQuiet

NextCreate ==
    \/ \E w \in SxWorkers, cmd \in GoodCreateCmds \cup OddCreateCmds :
           SindexCreateSnapshot(w, cmd)
    \/ \E w \in SxWorkers : SindexCreateSet(w)

SpecCreate == InitCreate /\ [][NextCreate]_vars

\* The number of live (non-tombstone) items under a key.
LiveEntries(key) ==
    Cardinality({i \in 1..Len(smd_items) :
                     smd_items[i].key = key /\ smd_items[i].value # NULLSTR})

\* Two handlers have both finished a sindex-create that composed the same key.
SameKeyCreatesDone(w1, w2) ==
    /\ w1 # w2
    /\ sx[w1].pc = "done" /\ sx[w1].op = "create" /\ sx[w1].key # NULLSTR
    /\ sx[w2].pc = "done" /\ sx[w2].op = "create"
    /\ sx[w1].key = sx[w2].key

InitSindex == WorkerQuiet /\ SindexInit /\ FdsQuiet /\ DispQuiet

NextSindex ==
    \/ \E w \in SxWorkers, cmd \in GoodCreateCmds \cup OddCreateCmds :
           SindexCreateSnapshot(w, cmd)
    \/ \E w \in SxWorkers : SindexCreateSet(w)
    \/ \E w \in SxWorkers, cmd \in DeleteCmds : SindexDeleteSnapshot(w, cmd)
    \/ \E w \in SxWorkers : SindexDeleteApply(w)

SpecSindex == InitSindex /\ [][NextSindex]_vars

(***************************************************************************)
(* SpecFds: connections opening and closing while info_get_stats and the   *)
(* ticker's log_line_fds read the counters.                                *)
(***************************************************************************)
InitFds == WorkerQuiet /\ SindexQuiet /\ FdsQuiet /\ DispQuiet

NextFds ==
    \/ \E k \in ConnClasses : ConnOpen(k)
    \/ \E k \in ConnClasses : ConnClose(k)
    \/ \E who \in Observers : ObsEnter(who)
    \/ ObsLoad
    \/ ObsCompute

SpecFds == InitFds /\ [][NextFds]_vars

\* C7: every observation by info_get_stats and by log_line_fds publishes,
\* for each connection class, an open gauge equal to the non-negative
\* difference of the opened and closed values it read (no wrap-around),
\* under any interleaving with connections opening and closing.
C7_GaugesNeverNegative ==
    obs.pc = "done" =>
        \A k \in ConnClasses :
            /\ obs.opened[k] >= obs.closed[k]
            /\ obs.open[k] = obs.opened[k] - obs.closed[k]

\* log_line_fds finished an observation during which proto connections were
\* closed after it had read the closed counter.
C7_Witness ==
    /\ obs.who = "log_line_fds"
    /\ obs.pc = "done"
    /\ obs.open["proto"] >= 1
    /\ obs.closed["proto"] < conns_closed["proto"]
    /\ obs.opened["proto"] = conns_closed["proto"]

(***************************************************************************)
(* SpecDispatch: one worker answering requests through info_all and        *)
(* info_some over a fixed registry.                                        *)
(***************************************************************************)
InitDispatch ==
    /\ WorkerQuiet /\ SindexQuiet /\ FdsQuiet
    /\ \E reg \in Registries :
           /\ static_head = reg.static
           /\ dynamic_head = reg.dynamic
           /\ tree_head = reg.tree
           /\ command_head = reg.command
    /\ req = NoReq
    /\ c = 1
    /\ tok = 1
    /\ db = <<>>
    /\ calls = <<>>
    /\ dpc = "idle"
    /\ hdr = ZeroHeader
    /\ out_sz = 1

NextDispatch ==
    \/ InfoReceive
    \/ InfoAll
    \/ InfoSomeEnter
    \/ InfoSomeStep
    \/ InfoSomeReturn

SpecDispatch == InitDispatch /\ [][NextDispatch]_vars

\* The newline-terminated pieces of a sequence, in order; an unterminated
\* tail is left out.
RECURSIVE SplitAt(_, _, _, _)
SplitAt(s, sep, i, cur) ==
    IF i > Len(s) THEN <<>>
    ELSE IF s[i] = sep THEN <<cur>> \o SplitAt(s, sep, i + 1, <<>>)
    ELSE SplitAt(s, sep, i + 1, Append(cur, s[i]))

RequestLines == SplitAt(req.body, EOL, 1, <<>>)
ReplyLines == SplitAt(db, EOL, 1, <<>>)

Before(s, ch) == SubSeq(s, 1, strchr(s, ch) - 1)
After(s, ch) == SubSeq(s, strchr(s, ch) + 1, Len(s))

Registered(head, name) == \E i \in 1..Len(head) : head[i].name = name

IsCommandLine(line) == strchr(line, ":") # 0

\* A request line the registry has an answer for.
Answered(line) ==
    IF IsCommandLine(line)
    THEN Registered(command_head, Before(line, ":"))
    ELSE \/ Registered(static_head, line)
         \/ Registered(dynamic_head, line)
         \/ strchr(line, TREE_SEP) # 0 /\ Registered(tree_head, Before(line, TREE_SEP))

\* Position of a command in the list (names are unique in it).
CommandIndex(name) == CHOOSE i \in 1..Len(command_head) : command_head[i].name = name

Authenticated == req.fd_h.auth_result = "AS_OK"

\* The connection holds the permission the command of this line requires.
Permitted(line) ==
    LET perm == command_head[CommandIndex(Before(line, ":"))].required_perm
    IN perm = "PERM_NONE" \/ perm \in req.fd_h.perms

IsAnsweredCommand(line) == IsCommandLine(line) /\ Answered(line)
IsPermittedCommand(line) == IsAnsweredCommand(line) /\ Permitted(line)
IsCommandCall(call) == call.kind = "command_fn"
IsCommandReply(line) == IsCommandLine(Before(line, SEP))

SecurityErrorHeads == {"ERROR:", "FAIL:", "error=role_violation"}

Finished == dpc = "done"

\* C8: a command handler is invoked exactly for the command lines of an
\* authenticated connection whose security check passed; on an
\* unauthenticated connection nothing is invoked and the reply is the one
\* security error line; a refused command gets a security error string in
\* place of the handler's output.
C8_AuthorizationGating ==
    /\ \A i \in 1..Len(calls) :
           IsCommandCall(calls[i]) =>
               /\ Authenticated
               /\ IsPermittedCommand(calls[i].name \o <<":">> \o calls[i].arg)
    /\ (Finished /\ ~Authenticated) =>
           /\ calls = <<>>
           /\ Len(ReplyLines) = 1
           /\ ReplyLines[1][1] \in SecurityErrorHeads
    /\ (Finished /\ Authenticated /\ req.sz # 0) =>
           LET asked == SelectSeq(RequestLines, IsAnsweredCommand)
               run == SelectSeq(RequestLines, IsPermittedCommand)
               called == SelectSeq(calls, IsCommandCall)
               replied == SelectSeq(ReplyLines, IsCommandReply)
           IN /\ Len(called) = Len(run)
              /\ \A i \in 1..Len(run) :
                     called[i].name \o <<":">> \o called[i].arg = run[i]
              /\ Len(replied) = Len(asked)
              /\ \A i \in 1..Len(asked) :
                     /\ Before(replied[i], SEP) = asked[i]
                     /\ IF Permitted(asked[i])
                        THEN After(replied[i], SEP) = <<"command_fn">>
                        ELSE /\ After(replied[i], SEP)[1] \in SecurityErrorHeads
                             /\ strchr(After(replied[i], SEP), "command_fn") = 0

\* One request in which a permitted command ran and another was refused.
C8_Witness ==
    /\ Finished /\ Authenticated
    /\ \E i \in 1..Len(calls) : IsCommandCall(calls[i])
    /\ \E i \in 1..Len(ReplyLines) :
           /\ IsCommandReply(ReplyLines[i])
           /\ After(ReplyLines[i], SEP)[1] \in SecurityErrorHeads

\* C9: the results in the reply are the answered lines of the request in
\* request order, each echoing its line before the TAB and each terminated
\* by a newline.
C9_ReplyOrdering ==
    (Finished /\ Authenticated /\ req.sz # 0) =>
        LET answered == SelectSeq(RequestLines, Answered)
        IN /\ Len(ReplyLines) = Len(answered)
           /\ \A i \in 1..Len(answered) : Before(ReplyLines[i], SEP) = answered[i]
           /\ (db # <<>> => db[Len(db)] = EOL)

\* A reply with two different results around a request line that has none.
C9_Witness ==
    /\ Finished /\ Authenticated
    /\ Len(ReplyLines) >= 2
    /\ Before(ReplyLines[1], SEP) # Before(ReplyLines[2], SEP)
    /\ Len(RequestLines) > Len(ReplyLines)
    /\ ~Answered(RequestLines[2])

HasDefaultFlag(e) == e.def

RECURSIVE ValueLines(_, _)
ValueLines(entries, payload) ==
    IF entries = <<>> THEN <<>>
    ELSE Head(entries).name \o <<SEP, payload, EOL>> \o ValueLines(Tail(entries), payload)

\* C10: an empty body on an authenticated connection is answered by one
\* name-TAB-value-newline line for exactly the default-flagged static
\* entries, then exactly the default-flagged dynamic entries; nothing else
\* is included and no tree or command handler runs.
C10_DumpAllOnEmptyBody ==
    (Finished /\ Authenticated /\ req.sz = 0) =>
        /\ db = ValueLines(SelectSeq(static_head, HasDefaultFlag), "value")
                  \o ValueLines(SelectSeq(dynamic_head, HasDefaultFlag), "value_fn")
        /\ Len(calls) = Len(SelectSeq(dynamic_head, HasDefaultFlag))
        /\ \A i \in 1..Len(calls) : calls[i].kind = "value_fn"

\* An empty body answered from a registry that also holds entries without
\* the default flag.
C10_Witness ==
    /\ Finished /\ Authenticated /\ req.sz = 0
    /\ db # <<>>
    /\ Len(SelectSeq(static_head, HasDefaultFlag)) \in 1..(Len(static_head) - 1)
    /\ Len(SelectSeq(dynamic_head, HasDefaultFlag)) \in 1..(Len(dynamic_head) - 1)
    /\ Len(ReplyLines) < Len(static_head) + Len(dynamic_head)

(***************************************************************************)
(* SpecFrame: thr_info_fn around the dispatcher, with handler outputs of   *)
(* sizes that reach every byte of the length field.                        *)
(***************************************************************************)
FrameBodyLen == 4
FrameBodies == SeqsUpTo(BodyChars, FrameBodyLen)
OutSizes == {1, 250, 65536, 16777216}

InitFrame ==
    /\ WorkerQuiet /\ SindexQuiet /\ FdsQuiet
    /\ \E reg \in Registries :
           /\ static_head = reg.static
           /\ dynamic_head = reg.dynamic
           /\ tree_head = reg.tree
           /\ command_head = reg.command
    /\ out_sz \in OutSizes
    /\ req = NoReq
    /\ c = 1
    /\ tok = 1
    /\ db = <<>>
    /\ calls = <<>>
    /\ dpc = "idle"
    /\ hdr = ZeroHeader

NextFrame ==
    \/ InfoReceiveOf(FrameBodies)
    \/ InfoAll
    \/ InfoSomeEnter
    \/ InfoSomeStep
    \/ InfoSomeReturn
    \/ InfoPatchHeader

SpecFrame == InitFrame /\ [][NextFrame]_vars

Framed == dpc = "framed"

\* C11: every reply starts with the bytes 2, 1, 0, 0 followed by the body
\* size (buffer size minus 8) as four bytes, most significant first, for
\* every request: empty body, unauthenticated, unknown names included.
C11_ReplyFraming ==
    Framed =>
        /\ hdr[1] = 2 /\ hdr[2] = 1 /\ hdr[3] = 0 /\ hdr[4] = 0
        /\ \A i \in 5..8 : hdr[i] \in 0..255
        /\ hdr[5] * 16777216 + hdr[6] * 65536 + hdr[7] * 256 + hdr[8] = BufBytes(db)

\* A framed reply whose size needs the two middle bytes and the last one.
C11_Witness ==
    /\ Framed
    /\ hdr[6] # 0 /\ hdr[8] # 0 /\ hdr[6] # hdr[7]
    /\ Len(calls) >= 1

(***************************************************************************)
(* SpecCreateTwice: handler 2 runs its sindex-create after handler 1 has   *)
(* replied, with nothing else touching the module: two calls in sequence.  *)
(***************************************************************************)
FirstCall == 1
SecondCall == 2

NextCreateTwice ==
    \/ \E cmd \in GoodCreateCmds \cup OddCreateCmds : SindexCreateSnapshot(FirstCall, cmd)
    \/ SindexCreateSet(FirstCall)
    \/ /\ sx[FirstCall].pc = "done"
       /\ \E cmd \in GoodCreateCmds \cup OddCreateCmds : SindexCreateSnapshot(SecondCall, cmd)
    \/ SindexCreateSet(SecondCall)

SpecCreateTwice == InitCreate /\ [][NextCreateTwice]_vars

\* The second call has replied to the command the first call replied OK to.
SameCreateTwice ==
    /\ sx[FirstCall].pc = "done" /\ sx[FirstCall].reply = OkResponse
    /\ sx[SecondCall].pc = "done" /\ sx[SecondCall].op = "create"
    /\ sx[SecondCall].key = sx[FirstCall].key
    /\ sx[SecondCall].index_name = sx[FirstCall].index_name

\* C12: the same sindex-create issued again after it replied OK replies OK,
\* issues no blocking set, and the module keeps the one live entry (key and
\* indexname) the first call left.
C12_CreateIdempotent ==
    SameCreateTwice =>
        /\ sx[SecondCall].reply = OkResponse
        /\ ~sx[SecondCall].applied
        /\ LiveEntries(sx[FirstCall].key) = 1
        /\ \E i \in 1..Len(smd_items) :
               smd_items[i] = SmdItem(sx[FirstCall].key, sx[FirstCall].index_name)

\* The first call created the definition and the second call repeated it.
C12_Witness == SameCreateTwice /\ sx[FirstCall].applied /\ sx[SecondCall].reply = OkResponse

(***************************************************************************)
(* SpecDeleteTwice: two sindex-delete commands one after the other, the    *)
(* second entering when the first has replied.                             *)
(***************************************************************************)
NextDeleteTwice ==
    \/ \E cmd \in DeleteCmds : SindexDeleteSnapshot(FirstCall, cmd)
    \/ SindexDeleteApply(FirstCall)
    \/ (sx[FirstCall].pc = "done" /\ \E cmd \in DeleteCmds :
             SindexDeleteSnapshot(SecondCall, cmd))
    \/ SindexDeleteApply(SecondCall)

SpecDeleteTwice == InitCreate /\ [][NextDeleteTwice]_vars

\* An item of the module that is live, carries the name, and whose key
\* starts with the namespace followed by "|".
LiveNamed(item, ns_name, index_name) ==
    /\ item.value # NULLSTR
    /\ item.value = index_name
    /\ Len(item.key) > Len(ns_name)
    /\ SubSeq(item.key, 1, Len(ns_name) + 1) = ns_name \o <<"|">>

NameMatches(items, ns_name, index_name) ==
    Cardinality({i \in 1..Len(items) : LiveNamed(items[i], ns_name, index_name)})

\* Handler w leaves idle with a sindex-delete whose parameters were accepted.
DeleteEnters(w) ==
    /\ sx[w].pc = "idle" /\ sx'[w].pc # "idle"
    /\ sx'[w].op = "delete" /\ sx'[w].index_name # NULLSTR

\* The second call repeats the first, which replied OK.
SameDeleteTwice ==
    /\ sx[FirstCall].pc = "done" /\ sx[FirstCall].op = "delete"
    /\ sx[FirstCall].reply = OkResponse
    /\ sx[SecondCall].pc = "done" /\ sx[SecondCall].op = "delete"
    /\ sx[SecondCall].index_name = sx[FirstCall].index_name
    /\ sx[SecondCall].ns_name = sx[FirstCall].ns_name

\* C13: a sindex-delete for an indexname that has no live SMD entry in the
\* given namespace replies OK and issues no SMD delete; so of two identical
\* deletes in a row the second replies OK and leaves the module unchanged.
C13_DeleteIdempotent ==
    /\ [][\A w \in {FirstCall, SecondCall} :
              (DeleteEnters(w)
                  /\ NameMatches(smd_items, sx'[w].ns_name, sx'[w].index_name) = 0)
              => /\ sx'[w].pc = "done"
                 /\ sx'[w].reply = OkResponse
                 /\ ~sx'[w].applied
                 /\ smd_items' = smd_items]_vars
    /\ [](SameDeleteTwice =>
              /\ sx[SecondCall].reply = OkResponse
              /\ ~sx[SecondCall].applied)

\* The first delete tombstoned the entry; the repeat replied OK without a
\* delete.
C13_Witness ==
    /\ SameDeleteTwice
    /\ sx[FirstCall].applied
    /\ sx[SecondCall].reply = OkResponse /\ ~sx[SecondCall].applied
    /\ \E i \in 1..Len(smd_items) :
           smd_items[i].key = sx[FirstCall].key /\ smd_items[i].value = NULLSTR

\* What an ambiguous sindex-delete does on entering: it finishes with the
\* given FAIL message and leaves the module as it was.
AmbiguousDeleteFails(message) ==
    \A w \in SxWorkers :
        (DeleteEnters(w)
            /\ NameMatches(smd_items, sx'[w].ns_name, sx'[w].index_name) >= 2)
        => /\ sx'[w].pc = "done"
           /\ sx'[w].reply = FailResponse("AS_ERR_SINDEX_FOUND", message)
           /\ ~sx'[w].applied
           /\ smd_items' = smd_items

\* C14 as stated: when two or more live SMD entries of the namespace carry
\* the requested indexname, sindex-delete replies
\* FAIL:<err>:indexname is not unique and deletes none of them.
C14_UnquotedMessage == [][AmbiguousDeleteFails("indexname is not unique")]_vars

\* C14 amended: when two or more live SMD entries of the namespace carry the
\* requested indexname, sindex-delete replies
\* FAIL:<err>:'indexname' is not unique (the word indexname in single
\* quotes) and deletes none of them.
C14_AmbiguousDelete == [][AmbiguousDeleteFails("'indexname' is not unique")]_vars

\* A finished sindex-delete that was refused while two live entries with
\* different keys carry its name.
C14_Witness ==
    \E w \in SxWorkers :
        /\ sx[w].pc = "done" /\ sx[w].op = "delete" /\ sx[w].reply.status = "FAIL"
        /\ sx[w].index_name # NULLSTR
        /\ \E i, j \in 1..Len(smd_items) :
               /\ smd_items[i].key # smd_items[j].key
               /\ LiveNamed(smd_items[i], sx[w].ns_name, sx[w].index_name)
               /\ LiveNamed(smd_items[j], sx[w].ns_name, sx[w].index_name)

(***************************************************************************)
(* SpecMemorySize: config-set memory-size calls, one after the other, on   *)
(* one namespace.                                                          *)
(***************************************************************************)
InitMemorySize ==
    /\ TipQuiet
    /\ TickerThreadQuiet
    /\ NsCfgQuiet
    /\ NsStatsQuiet
    /\ WorkerIdle /\ SindexQuiet /\ FdsQuiet /\ DispQuiet /\ ParamQuiet /\ RegQuiet
    /\ TickQuiet /\ ClusterQuiet /\ QuiesceQuiet
    /\ memory_size \in MemorySizes \ {0}
    /\ ms = MsIdle

NextMemorySize ==
    \/ \E context \in MemorySizes \cup {NotANumber} : MemSizeParse(context)
    \/ MemSizeRaise
    \/ MemSizeCheckFloor
    \/ MemSizeStore

SpecMemorySize == InitMemorySize /\ [][NextMemorySize]_vars

MemSizeRunning == ms.pc \in {"raise", "floor", "store"}
MemSizeReplied == ms.pc = "done" /\ ms.reply # ""

InitParamGet ==
    /\ TipQuiet
    /\ TickerThreadQuiet
    /\ NsCfgQuiet
    /\ NsStatsQuiet
    /\ WorkerIdle /\ SindexQuiet /\ FdsQuiet /\ DispQuiet /\ MemQuiet /\ RegQuiet
    /\ TickQuiet /\ ClusterQuiet /\ QuiesceQuiet
    /\ \E param_str \in ParamStrs, param \in ParamNames, value_len \in 0..MaxValueLen :
           pg = [PgIdle EXCEPT !.param_str = param_str, !.param = param,
                               !.value_len = value_len]

NextParamGet == ParamGetCall

SpecParamGet == InitParamGet /\ [][NextParamGet]_vars

\* The value the parameter string gives the requested name, when the string
\* starts with the name and "=": what follows, up to the end or the first
\* ";". Empty when the string does not start so.
SoleValues ==
    LET n == Len(pg.param)
        rest == SubSeq(pg.param_str, n + 2, Len(pg.param_str))
    IN IF Len(pg.param_str) > n /\ SubSeq(pg.param_str, 1, n + 1) = pg.param \o <<"=">>
       THEN {SubSeq(rest, 1, k) : k \in {m \in 0..Len(rest) :
                 /\ \A x \in 1..m : rest[x] # ";"
                 /\ (m = Len(rest) \/ rest[m + 1] = ";")}}
       ELSE {}

ParamGetDone == pg.pc = "done"

\* C16 as stated: with bound B = *value_len on entry, a value of exactly B
\* bytes is accepted with the full value copied, and a value of B + 1 bytes
\* is rejected with -2 without copying.
C16_BoundAccepted ==
    ParamGetDone =>
        \A val \in SoleValues :
            /\ Len(val) = pg.value_len =>
                   (pg.out.rv = 0 /\ pg.out.copied /\ pg.out.value = val)
            /\ Len(val) = pg.value_len + 1 => (pg.out.rv = -2 /\ ~pg.out.copied)

\* C16 amended: with bound B = *value_len on entry (the size of the caller's
\* buffer, terminating 0 included), a value of exactly B - 1 bytes is
\* accepted with the full value copied and *value_len set to B - 1, and a
\* value of B bytes is rejected with -2, nothing copied and *value_len left
\* alone; no call copies a value of B bytes or more.
C16_BoundExclusive ==
    ParamGetDone =>
        /\ \A val \in SoleValues :
               /\ Len(val) = pg.value_len - 1 =>
                      /\ pg.out.rv = 0 /\ pg.out.copied
                      /\ pg.out.value = val /\ pg.out.value_len = Len(val)
               /\ Len(val) = pg.value_len =>
                      /\ pg.out.rv = -2 /\ ~pg.out.copied
                      /\ pg.out.value_len = pg.value_len
               /\ pg.out.rv = 0 <=> Len(val) < pg.value_len
        /\ pg.out.copied <=> pg.out.rv = 0
        /\ pg.out.copied => Len(pg.out.value) < pg.value_len

\* "ns=vv" read into a two-byte buffer: the value is as long as the bound
\* and the call returned -2.
C16_Witness ==
    /\ ParamGetDone
    /\ pg.value_len = 2
    /\ \E val \in SoleValues : Len(val) = 2
    /\ pg.out.rv = -2

(***************************************************************************)
(* SpecRegistry: any sequence of registration calls on the four lists,     *)
(* starting from empty lists.                                              *)
(***************************************************************************)
InitRegistry ==
    /\ TipQuiet
    /\ TickerThreadQuiet
    /\ NsCfgQuiet
    /\ NsStatsQuiet
    /\ WorkerIdle /\ SindexQuiet /\ FdsQuiet /\ DispQuiet /\ MemQuiet /\ ParamQuiet
    /\ TickQuiet /\ ClusterQuiet /\ QuiesceQuiet
    /\ registered = NoneRegistered

NextRegistry ==
    \/ \E name \in RegNames, value \in StaticValues \cup {NoValue} :
           SetBuf(name, value, TRUE)
    \/ \E name \in RegNames, gv_fn \in ValueFns, def \in BOOLEAN :
           SetDynamic(name, gv_fn, def)
    \/ \E name \in RegNames, gv_fn \in TreeFns : SetTree(name, gv_fn)
    \/ \E name \in RegNames, command_fn \in CommandFns, perm \in RequiredPerms :
           SetCommand(name, command_fn, perm)

SpecRegistry == InitRegistry /\ [][NextRegistry]_vars

\* The number of entries of a list that carry the name.
EntriesNamed(head, name) ==
    Cardinality({i \in 1..Len(head) : head[i].name = name})

\* What a lookup of the name in a list answers with: the value or function
\* of the entry Find returns, NoValue when it returns none.
LookedUp(list, name) ==
    CASE list = "static" ->
             IF Find(static_head, name) = <<>> THEN NoValue
             ELSE Find(static_head, name)[1].value
      [] list = "dynamic" ->
             IF Find(dynamic_head, name) = <<>> THEN NoValue
             ELSE Find(dynamic_head, name)[1].value_fn
      [] list = "tree" ->
             IF Find(tree_head, name) = <<>> THEN NoValue
             ELSE Find(tree_head, name)[1].tree_fn
      [] list = "command" ->
             IF Find(command_head, name) = <<>> THEN NoValue
             ELSE Find(command_head, name)[1].command_fn

\* C17: after any sequence of as_info_set_buf / _dynamic / _tree / _command
\* calls (repeated names and static deletion included) each list holds at
\* most one entry per name, and a lookup of a name answers with the value or
\* function of the most recent registration of that name in that list.
C17_RegistryUnique ==
    \A name \in RegNames :
        /\ EntriesNamed(static_head, name) <= 1
        /\ EntriesNamed(dynamic_head, name) <= 1
        /\ EntriesNamed(tree_head, name) <= 1
        /\ EntriesNamed(command_head, name) <= 1
        /\ \A list \in RegLists : LookedUp(list, name) = registered[list][name]

\* Every list holds both names with different values, and the dynamic and
\* command entries behind the head carry their second function.
C17_Witness ==
    /\ Len(static_head) = 2 /\ Len(tree_head) = 2 /\ Len(command_head) = 2
    /\ Len(dynamic_head) = 2
    /\ dynamic_head[2].value_fn = "value_fn2"
    /\ ~dynamic_head[2].def /\ dynamic_head[1].def
    /\ static_head[1].value = "value2" /\ static_head[2].value = "value"
    /\ command_head[2].command_fn = "command_fn2"

(***************************************************************************)
(* SpecTicker: a client setting ticker-interval, reading the service       *)
(* context back, and applying what it read.                                *)
(***************************************************************************)
InitTicker ==
    /\ TipQuiet
    /\ TickerThreadQuiet
    /\ NsCfgQuiet
    /\ NsStatsQuiet
    /\ WorkerIdle /\ SindexQuiet /\ FdsQuiet /\ DispQuiet /\ MemQuiet /\ ParamQuiet
    /\ RegQuiet /\ ClusterQuiet /\ QuiesceQuiet
    /\ ticker_interval \in {0, 10}
    /\ tk = TkIdle

NextTicker ==
    \/ TickerSetAny
    \/ ConfigGet
    \/ TickerSetRead

SpecTicker == InitTicker /\ [][NextTicker]_vars

\* The items of a config-get reply that carry the name.
ItemsNamed(snapshot, name) == {i \in 1..Len(snapshot) : snapshot[i].name = name}

\* The context string is the decimal form of an integer: an optional "-" and
\* one or more digits.
IsIntegerLiteral(str) ==
    LET digits == IF Len(str) >= 1 /\ str[1] = "-" THEN Tail(str) ELSE str
    IN Len(digits) >= 1 /\ \A i \in 1..Len(digits) : IsDigit(digits[i])

\* The integer an integer literal denotes.
RECURSIVE LiteralValue(_)
LiteralValue(str) ==
    IF str = <<>> THEN 0
    ELSE IF str[1] = "-" THEN -LiteralValue(Tail(str))
    ELSE LiteralValue(SubSeq(str, 1, Len(str) - 1)) * 10 + DigitValue(str[Len(str)])

\* C18: for every integer v for which config-set ticker-interval=v replied
\* ok, the config-get of the service context that follows holds
\* ticker-interval exactly once and with the value v; and after applying a
\* value just read, config-get answers as it did before.
C18_ReadYourWrite ==
    /\ (tk.pc = "got" /\ tk.reply = "ok" /\ IsIntegerLiteral(tk.set)) =>
           /\ Cardinality(ItemsNamed(tk.snapshot, "ticker-interval")) = 1
           /\ \A i \in ItemsNamed(tk.snapshot, "ticker-interval") :
                  /\ IsIntegerLiteral(tk.snapshot[i].value)
                  /\ LiteralValue(tk.snapshot[i].value) = LiteralValue(tk.set)
    /\ tk.pc = "regot" => tk.snapshot = tk.before

(***************************************************************************)
(* SpecClusterStable: one cluster-stable command while the exchange may    *)
(* install new clusters.                                                   *)
(***************************************************************************)
InitClusterStable ==
    /\ TipQuiet
    /\ TickerThreadQuiet
    /\ NsCfgQuiet
    /\ NsStatsQuiet
    /\ WorkerIdle /\ SindexQuiet /\ FdsQuiet /\ DispQuiet /\ MemQuiet /\ ParamQuiet
    /\ RegQuiet /\ TickQuiet /\ QuiesceQuiet
    /\ \E allowed \in BOOLEAN, size \in ClusterSizes, remaining \in {0, 1} :
           cluster = [key |-> 1, migrations_allowed |-> allowed, size |-> size,
                      remaining |-> remaining]
    /\ cs = CsIdle

NextClusterStable ==
    \/ ClusterChange
    \/ ClusterStableBegin
    \/ ClusterStableAllowed
    \/ ClusterStableCollect
    \/ ClusterStableVerify

SpecClusterStable == InitClusterStable /\ [][NextClusterStable]_vars

\* The command reached its second read of the cluster key and the key was
\* not the one read at the start.
KeyChangedDuringCollection ==
    /\ cs.pc = "done"
    /\ cs.end_cluster_key # 0
    /\ cs.end_cluster_key # cs.begin_cluster_key

\* C19: when the cluster key read at the end of cluster-stable differs from
\* the key read at its start, the command rejects with unstable-cluster: its
\* reply is ERROR::unstable-cluster, as for every other unstable outcome.
C19_RejectsOnKeyChange ==
    KeyChangedDuringCollection => cs.reply = CsReply("ERROR::unstable-cluster", 0)

(***************************************************************************)
(* SpecQuiesce: quiesce and quiesce-undo commands, one after the other, on *)
(* either edition, with and without stay-quiesced.                         *)
(***************************************************************************)
InitQuiesce ==
    /\ TipQuiet
    /\ TickerThreadQuiet
    /\ NsCfgQuiet
    /\ NsStatsQuiet
    /\ WorkerIdle /\ SindexQuiet /\ FdsQuiet /\ DispQuiet /\ MemQuiet /\ ParamQuiet
    /\ RegQuiet /\ TickQuiet /\ ClusterQuiet
    /\ pending_quiesce \in [Namespaces -> BOOLEAN]
    /\ qcfg \in [enterprise : BOOLEAN, stay_quiesced : BOOLEAN]
    /\ qc = QcIdle

NextQuiesce ==
    \/ \E cmd \in QuiesceCmds : QuiesceEnter(cmd)
    \/ QuiesceLoop

SpecQuiesce == InitQuiesce /\ [][NextQuiesce]_vars

QuiesceReplied == qc.pc = "done"

\* C20: a quiesce: that replies ok leaves pending_quiesce true for every
\* namespace, a quiesce-undo: that replies ok leaves it false for every
\* namespace, and a quiesce or quiesce-undo that does not reply ok changes no
\* namespace's flag.
C20_QuiesceFlags ==
    QuiesceReplied =>
        /\ (qc.cmd = "quiesce" /\ qc.reply = "ok") =>
               \A ns \in Namespaces : pending_quiesce[ns]
        /\ (qc.cmd = "quiesce-undo" /\ qc.reply = "ok") =>
               \A ns \in Namespaces : ~pending_quiesce[ns]
        /\ qc.reply # "ok" => pending_quiesce = qc.before

\* A quiesce-undo replied ok after a quiesce had set every flag.
C20_Witness ==
    /\ QuiesceReplied
    /\ qc.cmd = "quiesce-undo" /\ qc.reply = "ok"
    /\ \A ns \in Namespaces : qc.before[ns] /\ ~pending_quiesce[ns]

(***************************************************************************)
(* SpecTip: tip commands, one after the other.                             *)
(***************************************************************************)
InitTip ==
    /\ TickerThreadQuiet
    /\ NsCfgQuiet
    /\ NsStatsQuiet
    /\ WorkerIdle /\ SindexQuiet /\ FdsQuiet /\ DispQuiet
    /\ MemQuiet /\ ParamQuiet /\ RegQuiet /\ TickQuiet /\ ClusterQuiet /\ QuiesceQuiet
    /\ tip = TipIdle
    /\ hb_mesh_seeds = {}

NextTip == TipCommand \/ TipNext

SpecTip == InitTip /\ [][NextTip]_vars

TipReplied == tip.pc = "done"

\* What the claim calls an invalid tip: host missing or too long, port
\* missing or not an integer, or a tls value that is neither true nor false.
TipHostBad == ~tip.params.host.present \/ Len(tip.params.host.val) >= DNS_NAME_MAX_SIZE
TipPortBad == ~tip.params.port.present \/ ~IsIntegerLiteral(tip.params.port.val)
TipTlsBad == tip.params.tls.present /\ tip.params.tls.val \notin {S_true, S_false}

\* C21: a tip with a missing or too-long host, a missing or non-integer
\* port, or a tls value other than true/false replies error and never calls
\* the mesh-tip operation; a tip with valid host, integer port and tls
\* replies ok exactly when the heartbeat subsystem accepted the seed.
C21_TipValidation ==
    TipReplied =>
        IF TipHostBad \/ TipPortBad \/ TipTlsBad
        THEN tip.reply = "error" /\ ~tip.called
        ELSE tip.called /\ (tip.reply = "ok" <=> tip.rv = 0)

(***************************************************************************)
(* SpecTickerThread: the ticker thread under every configured interval,    *)
(* with the shutdown signal arriving at any moment.                        *)
(***************************************************************************)
TickerIntervals == 0..2

InitTickerThread ==
    /\ NsCfgQuiet
    /\ NsStatsQuiet
    /\ WorkerIdle /\ SindexQuiet /\ FdsQuiet /\ DispQuiet
    /\ MemQuiet /\ ParamQuiet /\ RegQuiet /\ ClusterQuiet /\ QuiesceQuiet /\ TipQuiet
    /\ ticker_interval \in TickerIntervals
    /\ tk = TkIdle
    /\ ticker = TickerAsleep(0)
    /\ clock_ns = 0
    /\ g_shutdown_started = FALSE
    /\ fabric_rate_stats = ZeroRates
    /\ ticker_lines = 0

NextTickerThread ==
    \/ ShutdownStart
    \/ TickerWake
    \/ TickerFrameStart
    \/ LogFabricRate
    \/ TickerFrameRest

SpecTickerThread == InitTickerThread /\ [][NextTickerThread]_vars

\* The larger of two numbers.
Larger(a, b) == IF a >= b THEN a ELSE b

\* The divisor the claim gives: max(1, floor(delta_time / one second)).
RateDivisor == Larger(1, ticker.delta_time \div NS_PER_SEC)

\* log_fabric_rate has published the rates of the current frame.
RatesPublished == ticker.pc = "rest"

\* C22: for every frame, each published fabric rate equals the captured
\* byte delta divided (integer division) by max(1, floor(delta_time / one
\* second)); the divisor is never zero, and a frame whose elapsed time is
\* under one second divides by 1.
C22_RateDivisorClamp ==
    RatesPublished =>
        /\ RateDivisor >= 1
        /\ ticker.delta_time < NS_PER_SEC => RateDivisor = 1
        /\ \A ch \in FabricChannels, d \in FabricDirs :
               fabric_rate_stats[ch][d] = ticker.rate[ch][d] \div RateDivisor

\* A frame after less than a second published the captured bytes as they
\* are.
C22_Witness ==
    /\ RatesPublished
    /\ ticker.delta_time < NS_PER_SEC
    /\ ticker.rate["bulk"]["s"] = 9
    /\ fabric_rate_stats["bulk"]["s"] = 9

\* C23: at any wake-up where the interval has elapsed and the shutdown flag
\* is set when the ticker tests it, the ticker thread exits without writing
\* any line of a frame; and once it has exited it writes nothing more.
C23_NoFrameAfterShutdown ==
    /\ [][(ticker.pc = "elapsed" /\ g_shutdown_started /\ ticker' # ticker)
              => (ticker'.pc = "exited" /\ ticker_lines' = ticker_lines)]_vars
    /\ [][ticker.pc = "exited"
              => (ticker'.pc = "exited" /\ ticker_lines' = ticker_lines)]_vars

\* The ticker left on shutdown at a wake-up after the interval, having
\* written one whole frame before.
C23_Witness ==
    /\ ticker.pc = "exited"
    /\ g_shutdown_started
    /\ ticker_lines > 0
    /\ ticker.delta_time >= ticker_interval * NS_PER_SEC

\* A terminator leaves the queue in this step.
TerminatorConsumed == Terminators' < Terminators

\* C24: each terminator a worker dequeues makes exactly one worker exit at
\* once: one terminator leaves the head of the queue, the number of live
\* workers drops by one, every other queue item stays queued, and no reply
\* is sent and no connection touched.
C24_SentinelConsumption ==
    [][TerminatorConsumed =>
          /\ Terminators' = Terminators - 1
          /\ LiveWorkers' = LiveWorkers - 1
          /\ Head(g_info_work_q) = NULL
          /\ g_info_work_q' = Tail(g_info_work_q)
          /\ UNCHANGED <<pc, proto, reply, fd_state, info_complete>>]_vars

\* A reduction from three workers is part-way: its first terminator has
\* been consumed, one worker is gone, and a transaction that was queued
\* behind the terminator still waits, unanswered.
C24_Witness ==
    \E r1, r2 \in Reqs :
        /\ pc[r1] = "shrink_dec"
        /\ info_threads_log = [from |-> 3, to |-> 1]
        /\ n_info_threads = 3
        /\ Terminators = 0
        /\ LiveWorkers = 2
        /\ g_info_work_q = <<r2>>
        /\ reply[r2] = ""

(***************************************************************************)
(* Claims on the decision of sindex-create, stated on the step in which a  *)
(* handler takes its snapshot and decides.                                 *)
(***************************************************************************)
\* Handler w leaves idle with a sindex-create whose parameters were accepted.
CreateEnters(w) ==
    /\ sx[w].pc = "idle" /\ sx'[w].pc # "idle"
    /\ sx'[w].op = "create" /\ sx'[w].key # NULLSTR

\* The command of handler w replies OK: at once, or after its blocking set.
CreateSucceeds(w) == sx'[w].pc = "set" \/ sx'[w].reply = OkResponse

\* The command of handler w was refused with this error and issues no set.
CreateRefused(w, num, message) ==
    /\ sx'[w].pc = "done"
    /\ sx'[w].reply = FailResponse(num, message)
    /\ ~sx'[w].applied
    /\ smd_items' = smd_items

\* Live items of the namespace that carry the name under a key other than
\* key.
OtherNamed(items, ns_name, index_name, key) ==
    Cardinality({i \in 1..Len(items) :
                     LiveNamed(items[i], ns_name, index_name) /\ items[i].key # key})

\* C25 as stated: whenever the snapshot holds a live entry under the
\* composed key, sindex-create replies success, whatever indexname that
\* entry carries and whatever other entries carry the requested indexname.
C25_SameKeyFirst ==
    [][\A w \in SxWorkers :
          (CreateEnters(w) /\ LiveEntries(sx'[w].key) = 1) => CreateSucceeds(w)]_vars

\* C25 amended: whenever the snapshot holds a live entry under the composed
\* key, sindex-create replies success exactly when no other live entry of
\* the namespace carries the requested indexname (whatever indexname the
\* entry under the key carries); when another entry does, the reply is the
\* 'found' failure and no set is issued.
C25_SameKeyUnlessNameTaken ==
    [][\A w \in SxWorkers :
          (CreateEnters(w) /\ LiveEntries(sx'[w].key) = 1) =>
              LET others == OtherNamed(smd_items, sx'[w].ns_name, sx'[w].index_name,
                                       sx'[w].key)
                  mine == NameMatches(smd_items, sx'[w].ns_name, sx'[w].index_name)
                              - others
              IN IF others = 0
                 THEN CreateSucceeds(w)
                 ELSE IF others + mine = 1
                 THEN CreateRefused(w, "AS_ERR_SINDEX_FOUND",
                          "'indexname' already exists with different definition")
                 ELSE CreateRefused(w, "AS_ERR_SINDEX_FOUND",
                          "'indexname' already exists with multiple definitions")]_vars

\* On one store, untouched since: one command found its key live under its
\* own name and replied OK, another found its key live while a different
\* entry carried the name it asked for and was refused.
C25_Witness ==
    \E w1, w2 \in SxWorkers :
        /\ sx[w1].pc = "done" /\ sx[w1].op = "create"
        /\ sx[w1].reply = OkResponse /\ ~sx[w1].applied
        /\ LiveEntries(sx[w1].key) = 1
        /\ sx[w2].pc = "done" /\ sx[w2].op = "create"
        /\ sx[w2].reply.status = "FAIL" /\ sx[w2].key # NULLSTR
        /\ LiveEntries(sx[w2].key) = 1
        /\ OtherNamed(smd_items, sx[w2].ns_name, sx[w2].index_name, sx[w2].key) = 1

\* Live items whose key starts with the namespace followed by "|".
LiveInNamespace(items, ns_name) ==
    Cardinality({i \in 1..Len(items) :
                     /\ items[i].value # NULLSTR
                     /\ Len(items[i].key) > Len(ns_name)
                     /\ SubSeq(items[i].key, 1, Len(ns_name) + 1) = ns_name \o <<"|">>})

\* C26: when the requested indexname is carried in the namespace by exactly
\* one live entry under a different composed key, or by two or more live
\* entries, sindex-create replies the 'found' failure (different definition,
\* or multiple definitions), issues no set and leaves the module unchanged.
C26_NameCollision ==
    [][\A w \in SxWorkers :
          CreateEnters(w) =>
              LET matches == NameMatches(smd_items, sx'[w].ns_name, sx'[w].index_name)
                  others == OtherNamed(smd_items, sx'[w].ns_name, sx'[w].index_name,
                                       sx'[w].key)
              IN /\ (matches = 1 /\ others = 1) =>
                        CreateRefused(w, "AS_ERR_SINDEX_FOUND",
                            "'indexname' already exists with different definition")
                 /\ matches >= 2 =>
                        CreateRefused(w, "AS_ERR_SINDEX_FOUND",
                            "'indexname' already exists with multiple definitions")]_vars

\* A command was refused because one entry under another key carries its
\* indexname, and the store is as the command found it.
C26_Witness ==
    \E w \in SxWorkers :
        /\ sx[w].pc = "done" /\ sx[w].op = "create" /\ ~sx[w].applied
        /\ sx[w].reply = FailResponse("AS_ERR_SINDEX_FOUND",
                              "'indexname' already exists with different definition")
        /\ NameMatches(smd_items, sx[w].ns_name, sx[w].index_name) = 1
        /\ LiveEntries(sx[w].key) = 0
        /\ \A v \in SxWorkers : ~sx[v].applied

\* C27: when no live entry of the namespace carries the requested indexname,
\* the composed key is not live, and the namespace has MAX_N_SINDEXES live
\* definitions or more, sindex-create replies the max-count failure and
\* issues no set; when the composed key is live the limit is not applied.
C27_DefinitionCap ==
    [][\A w \in SxWorkers :
          CreateEnters(w) =>
              /\ ( /\ NameMatches(smd_items, sx'[w].ns_name, sx'[w].index_name) = 0
                   /\ LiveEntries(sx'[w].key) = 0
                   /\ LiveInNamespace(smd_items, sx'[w].ns_name) >= MAX_N_SINDEXES )
                     => CreateRefused(w, "AS_ERR_SINDEX_MAX_COUNT",
                            "already at sindex definition limit")
              /\ LiveEntries(sx'[w].key) = 1
                     => sx'[w].reply.num # "AS_ERR_SINDEX_MAX_COUNT"]_vars

\* A full namespace refused a new definition under a free name, and let a
\* command through whose composed key was live.
C27_Witness ==
    \E w1, w2 \in SxWorkers :
        /\ sx[w1].pc = "done" /\ ~sx[w1].applied
        /\ sx[w1].reply = FailResponse("AS_ERR_SINDEX_MAX_COUNT",
                               "already at sindex definition limit")
        /\ sx[w2].pc = "done" /\ sx[w2].applied /\ sx[w2].ns_name = sx[w1].ns_name
        /\ LiveInNamespace(smd_items, sx[w1].ns_name) = MAX_N_SINDEXES

\* No two live items of one namespace carry the same indexname.
UniqueNames(items) ==
    \A i, j \in 1..Len(items) :
        ( /\ i # j
          /\ items[i].value # NULLSTR
          /\ items[i].value = items[j].value
          /\ strchr(items[i].key, "|") = strchr(items[j].key, "|") )
            => SubSeq(items[i].key, 1, strchr(items[i].key, "|"))
                   # SubSeq(items[j].key, 1, strchr(items[j].key, "|"))

(***************************************************************************)
(* SpecCreateUnique: concurrent sindex-create handlers on stores in which  *)
(* every indexname of a namespace names one definition.                    *)
(***************************************************************************)
InitCreateUnique ==
    /\ WorkerQuiet /\ FdsQuiet /\ DispQuiet
    /\ smd_items \in {items \in InitialSmdStores : UniqueNames(items)}
    /\ sx = [w \in SxWorkers |-> SxIdle]

SpecCreateUnique == InitCreateUnique /\ [][NextCreate]_vars

\* C28: starting from a store in which no two live entries of a namespace
\* carry the same indexname, after any interleaving of concurrent
\* sindex-create commands no two live entries of a namespace carry the same
\* indexname.
C28_NameUniqueness == UniqueNames(smd_items)

Namespaces_sx == {NS_a, NS_ab}

\* C29: after any interleaving of concurrent sindex-create commands, the
\* number of live entries of any one namespace never exceeds MAX_N_SINDEXES.
C29_CapUnderConcurrency ==
    \A ns_name \in Namespaces_sx : LiveInNamespace(smd_items, ns_name) <= MAX_N_SINDEXES

\* The live items of the module.
LiveItems(items) == {items[i] : i \in {j \in 1..Len(items) : items[j].value # NULLSTR}}

\* Handler w applies the blocking set of its sindex-create in this step.
CreateSets(w) == sx[w].pc = "set" /\ sx'[w].pc = "done"

DeleteApplies(w) == sx[w].pc = "del" /\ sx'[w].pc = "done"

\* C31: under any interleaving with concurrent sindex-create and
\* sindex-delete commands, the entry a sindex-delete removes carries the
\* command's indexname at the moment it is deleted; the command never
\* removes an entry that by then belongs to a different indexname.
C31_DeleteOnlyNamed ==
    [][\A w \in SxWorkers :
          DeleteApplies(w) =>
              \A i \in 1..Len(smd_items) :
                  (smd_items[i].key = sx[w].key /\ smd_items[i].value # NULLSTR)
                      => smd_items[i].value = sx[w].index_name]_vars

\* C32: whenever no resize call is part-way through, the live workers less
\* the terminators still in the work queue number g_config.n_info_threads;
\* and the number of live workers is never zero, after any sequence of grows
\* and shrinks.
C32_PoolAccounting ==
    /\ ~ResizeInProgress => LiveWorkers - Terminators = n_info_threads
    /\ LiveWorkers >= 1

\* A growth has returned while a terminator of an earlier reduction is still
\* queued: more workers are alive than info-threads says.
C32_Witness ==
    \E r \in Reqs :
        /\ ResizeReturned(r)
        /\ info_threads_log.from < info_threads_log.to
        /\ Terminators >= 1
        /\ LiveWorkers = n_info_threads + Terminators

\* How often transaction r is in the work queue.
TimesQueued(r) == Cardinality({i \in DOMAIN g_info_work_q : g_info_work_q[i] = r})

\* A worker holds transaction r: it popped it and has not finished it.
HeldByWorker(r) == pc[r] \in Working

\* C33: every transaction pushed with as_info is dequeued by exactly one
\* worker, which assembles one reply, attempts one send on the
\* transaction's connection and increments info_complete once, whatever
\* the number of workers and whatever resize is going on.
C33_ExactlyOnce ==
    /\ [](\A r \in Reqs :
              /\ TimesQueued(r) = (IF pc[r] = "queued" THEN 1 ELSE 0)
              /\ pc[r] \in {"unsent", "queued"} => fd_state[r] = InUse /\ reply[r] = "")
    /\ [](info_complete = Cardinality({r \in Reqs : pc[r] = "done"}))
    /\ [][\A r \in Reqs :
              /\ pc[r] = "done" => pc'[r] = "done"
              /\ HeldByWorker(r) => pc'[r] # "queued"
              /\ fd_state'[r] # fd_state[r]
                     => (pc[r] = "send" /\ pc'[r] = "hist_flag" /\ fd_state[r] = InUse)
              /\ reply'[r] # reply[r] => (pc[r] \in InHandler /\ reply[r] = "")
              /\ (pc'[r] = "done" /\ pc[r] # "done")
                     => info_complete' = info_complete + 1]_vars

\* Two transactions, one of them a resize of the pool, have both been
\* answered and counted.
C33_Witness ==
    \E r1, r2 \in Reqs :
        /\ r1 # r2
        /\ pc[r1] = "done" /\ pc[r2] = "done"
        /\ reply[r1] = "ok" /\ info_threads_log.from # info_threads_log.to
        /\ fd_state[r1] # InUse /\ fd_state[r2] # InUse
        /\ info_complete = 2

\* The worker of transaction r is past the send and the release.
Processed(r) == pc[r] \in {"hist_flag", "hist_insert", "done"}

\* C35: for every processed request exactly one of two things happened to
\* its connection: it was force-closed if the send of the reply failed, and
\* returned to the idle pool otherwise; never both, never neither; and
\* before that the connection is untouched.
C35_ConnectionDisposition ==
    \A r \in Reqs :
        IF Processed(r)
        THEN /\ fd_state[r].force_closed = fd_state[r].send_failed
             /\ fd_state[r].returned = ~fd_state[r].send_failed
        ELSE fd_state[r] = InUse

\* Two processed requests: the send of one failed and its connection was
\* force-closed, the other's connection went back to the idle pool.
C35_Witness ==
    \E r1, r2 \in Reqs :
        /\ Processed(r1) /\ Processed(r2)
        /\ fd_state[r1].send_failed /\ fd_state[r1].force_closed
        /\ ~fd_state[r2].send_failed /\ fd_state[r2].returned

\* The handler invocation that serves a lookup line from the dynamic list
\* or, for a line with a '/', from the tree list.
IsLookupCall(call) == call.kind # "command_fn"

\* A lookup line that is answered by calling a handler.
ServedByHandler(line) ==
    /\ ~IsCommandLine(line)
    /\ Answered(line)
    /\ ~Registered(static_head, line)

\* C34: a lookup line is resolved against the static entries first, then
\* the dynamic entries, then - only when the name holds a '/' - the tree
\* entries under the part before the first '/', and the first hit answers
\* it; a line is answered by a command entry only when it holds a ':'.
C34_LookupOrder ==
    (Finished /\ Authenticated /\ req.sz # 0) =>
        LET answered == SelectSeq(RequestLines, Answered)
            served == SelectSeq(RequestLines, ServedByHandler)
            looked == SelectSeq(calls, IsLookupCall)
        IN /\ Len(ReplyLines) = Len(answered)
           /\ \A i \in 1..Len(answered) :
                  LET line == answered[i]
                      payload == After(ReplyLines[i], SEP)
                  IN IF IsCommandLine(line)
                     THEN payload \notin {<<"value">>, <<"value_fn">>, <<"tree_fn">>}
                     ELSE IF Registered(static_head, line)
                     THEN payload = <<"value">>
                     ELSE IF Registered(dynamic_head, line)
                     THEN payload = <<"value_fn">>
                     ELSE payload = <<"tree_fn">>
           /\ Len(looked) = Len(served)
           /\ \A i \in 1..Len(served) :
                  IF Registered(dynamic_head, served[i])
                  THEN looked[i] = Call("value_fn", served[i], <<>>)
                  ELSE looked[i] = Call("tree_fn", Before(served[i], TREE_SEP),
                                        After(served[i], TREE_SEP))

\* The name a is registered in the dynamic and in the tree list and in no
\* static entry: given bare it was served by the dynamic handler, given as
\* a/b by the tree handler.
C34_Witness ==
    /\ Finished /\ Authenticated
    /\ req.body = <<"a", EOL, "a", TREE_SEP, "b", EOL>>
    /\ ~Registered(static_head, <<"a">>)
    /\ Registered(dynamic_head, <<"a">>) /\ Registered(tree_head, <<"a">>)
    /\ calls = <<Call("value_fn", <<"a">>, <<>>), Call("tree_fn", <<"a">>, <<"b">>)>>

(***************************************************************************)
(* SpecNsConfig: config-set commands of the namespace context, one after   *)
(* the other.                                                              *)
(***************************************************************************)
S_truex == <<"t", "r", "u", "e", "x">>

BoolStrings == {S_true, S_yes, S_false, S_no, S_maybe, S_truex}

NsCmds ==
    { NsCmd("namespace", ns, SetAbsent, "default-ttl", <<>>, sec) :
          ns \in CfgNamespaces,
          sec \in {NotSeconds} \cup {Seconds(v) : v \in 0..(MAX_ALLOWED_TTL + 1)} }
    \cup
    { NsCmd("namespace", ns, SetAbsent, "nsup-period", <<>>, sec) :
          ns \in CfgNamespaces,
          sec \in {NotSeconds} \cup {Seconds(v) : v \in 0..MaxNsupPeriod} }
    \cup
    { NsCmd("namespace", ns, SetAbsent, "allow-ttl-without-nsup", str, NotSeconds) :
          ns \in CfgNamespaces, str \in BoolStrings }
    \cup
    { NsCmd("namespace", ns, SetNamed(n), "disable-eviction", str, NotSeconds) :
          ns \in CfgNamespaces, n \in SetNames, str \in {S_true, S_false, S_maybe} }
    \cup
    { NsCmd("namespace", ns, SetNamed(n), "no-such-parameter", S_true, NotSeconds) :
          ns \in CfgNamespaces, n \in SetNames }
    \cup
    { NsCmd("namespace", 1, SetIllegal, "disable-eviction", S_true, NotSeconds),
      NsCmd("namespace", NoNamespace, SetAbsent, "default-ttl", <<>>, Seconds(0)),
      NsCmd("namespace", 1, SetAbsent, "no-such-parameter", <<>>, NotSeconds),
      NsCmd("no-such-context", 1, SetAbsent, "default-ttl", <<>>, Seconds(0)) }

InitNsConfig ==
    /\ NsStatsQuiet
    /\ WorkerIdle /\ SindexQuiet /\ FdsQuiet /\ DispQuiet
    /\ MemQuiet /\ ParamQuiet /\ RegQuiet /\ TickQuiet /\ ClusterQuiet /\ QuiesceQuiet
    /\ TipQuiet /\ TickerThreadQuiet
    /\ NsCfgQuiet

NextNsConfig == \E cmd \in NsCmds : NsConfigSetCall(cmd)

SpecNsConfig == InitNsConfig /\ [][NextNsConfig]_vars

\* Namespace ns has a non-zero default-ttl only with a non-zero nsup-period
\* or with allow-ttl-without-nsup.
TtlConstraint(ns) ==
    default_ttl[ns] # 0 => (nsup_period[ns] # 0 \/ allow_ttl_without_nsup[ns])

\* This step is a config-set default-ttl to a non-zero value, accepted by
\* as_info_parameter_get and cf_str_atoi_seconds, on a namespace that has
\* neither a non-zero nsup-period nor allow-ttl-without-nsup.
TtlSetWithoutNsup ==
    /\ nc'.cmd.context = "namespace" /\ nc'.cmd.id \in CfgNamespaces
    /\ ~nc'.cmd.set.sent /\ nc'.cmd.param = "default-ttl"
    /\ nc'.cmd.seconds.ok /\ nc'.cmd.seconds.val # 0
    /\ nsup_period[nc'.cmd.id] = 0 /\ ~allow_ttl_without_nsup[nc'.cmd.id]

\* C36 as stated: config-set default-ttl to a non-zero value is rejected
\* unless the namespace has a non-zero nsup-period or allow-ttl-without-nsup,
\* and after any sequence of config-set commands on default-ttl, nsup-period
\* and allow-ttl-without-nsup every namespace satisfies: default_ttl != 0
\* implies nsup_period != 0 or allow_ttl_without_nsup.
C36_TtlInvariant ==
    /\ [][TtlSetWithoutNsup => (nc'.reply = "error" /\ default_ttl' = default_ttl)]_vars
    /\ [](\A ns \in CfgNamespaces : TtlConstraint(ns))

\* C36 amended: the constraint is enforced when default-ttl is set, and
\* only then: a non-zero default-ttl is rejected unless the namespace has a
\* non-zero nsup-period or allow-ttl-without-nsup at that moment, so a
\* config-set default-ttl never takes a namespace out of the constraint;
\* a later config-set of nsup-period or allow-ttl-without-nsup is accepted
\* whatever default-ttl is.
C36_TtlCheckedOnSet ==
    [][/\ TtlSetWithoutNsup => (nc'.reply = "error" /\ default_ttl' = default_ttl)
       /\ \A ns \in CfgNamespaces :
              (TtlConstraint(ns) /\ ~TtlConstraint(ns)')
                  => /\ nc'.cmd.id = ns
                     /\ nc'.cmd.param \in {"nsup-period", "allow-ttl-without-nsup"}
                     /\ nc'.reply = "ok"
                     /\ default_ttl' = default_ttl]_vars

\* A non-zero default-ttl was refused on a namespace without nsup-period
\* and without the opt-out, while another namespace holds a non-zero
\* default-ttl under a non-zero nsup-period.
C36_Witness ==
    \E ns \in CfgNamespaces :
        /\ nc.cmd.param = "default-ttl" /\ nc.cmd.seconds.ok /\ nc.cmd.seconds.val # 0
        /\ nc.cmd.id # ns /\ nc.cmd.id \in CfgNamespaces
        /\ nc.reply = "error"
        /\ nsup_period[nc.cmd.id] = 0 /\ ~allow_ttl_without_nsup[nc.cmd.id]
        /\ default_ttl[ns] # 0 /\ nsup_period[ns] # 0

\* C37: every config-set command whose reply body is error leaves every
\* configuration field, and the namespace's table of sets, exactly as they
\* were before the command.
C37_FailedSetNoEffect ==
    [][nc'.reply = "error"
          => UNCHANGED <<default_ttl, nsup_period, allow_ttl_without_nsup, ns_sets>>]_vars

\* C38: every cluster-stable reply is either one ERROR:: literal and
\* nothing else, or the cluster key read at the start of the command and
\* nothing else; the key is returned only when the stability checks passed,
\* the comparison of the two key reads among them.
C38_ReplyExclusive ==
    cs.pc = "done" =>
        \/ cs.reply.error # "" /\ cs.reply.key = 0
        \/ /\ cs.reply.error = ""
           /\ cs.reply.key = cs.begin_cluster_key
           /\ cs.end_cluster_key = cs.begin_cluster_key

\* This step is a config-set of the boolean allow-ttl-without-nsup on a
\* namespace that exists.
BoolToggleSet ==
    /\ nc'.cmd.context = "namespace" /\ nc'.cmd.id \in CfgNamespaces
    /\ ~nc'.cmd.set.sent /\ nc'.cmd.param = "allow-ttl-without-nsup"

\* C39: a boolean-valued parameter accepts exactly the four literals true,
\* yes (meaning true) and false, no (meaning false); any other value,
\* strings that merely start with one of the literals among them, is
\* rejected with an error reply and leaves the target unchanged.
C39_BooleanGrammar ==
    [][BoolToggleSet =>
          LET ns == nc'.cmd.id
              str == nc'.cmd.str
          IN IF str \in {S_true, S_yes}
             THEN nc'.reply = "ok" /\ allow_ttl_without_nsup'[ns] = TRUE
             ELSE IF str \in {S_false, S_no}
             THEN nc'.reply = "ok" /\ allow_ttl_without_nsup'[ns] = FALSE
             ELSE /\ nc'.reply = "error"
                  /\ allow_ttl_without_nsup' = allow_ttl_without_nsup]_vars

(***************************************************************************)
(* SpecTickerLines: the ticker thread over namespaces whose counters and   *)
(* storage settings are any of a set of samples. The threads that move the *)
(* counters are not part of the model; a frame decides each line on one    *)
(* read of its counters, so every combination is a start state.            *)
(***************************************************************************)
GStatSamples ==
    { ZeroGStats,
      GStats(OneAt(7, 1, 3), Zeros(4)),
      GStats(Zeros(7), OneAt(4, 4, 1)) }

NsStatSamples ==
    { ZeroNsStats,
      [ZeroNsStats EXCEPT !.tombstones = <<1, 2, 0, 0, 0, 0>>, !.storage_type = "ssd"],
      [ZeroNsStats EXCEPT !.appeals = OneAt(3, 3, 1), !.migrate = <<2, 0, 1, 0>>],
      [ZeroNsStats EXCEPT !.migrate = <<2, 1, 0, 0>>,
                          !.txn = [ZeroTxn EXCEPT !["client"] = OneAt(27, 5, 1)],
                          !.xmem_type = "pmem", !.storage_type = "pmem"],
      [ZeroNsStats EXCEPT !.dup_res = OneAt(3, 1, 4), !.retransmits = OneAt(13, 13, 1)],
      [ZeroNsStats EXCEPT !.re_repl = OneAt(4, 4, 1), !.special_errors = OneAt(4, 2, 8),
                          !.txn = [ZeroTxn EXCEPT !["ops-sub"] = OneAt(6, 6, 2)],
                          !.xmem_type = "flash"] }

InitTickerLines ==
    /\ NsCfgQuiet
    /\ WorkerIdle /\ SindexQuiet /\ FdsQuiet /\ DispQuiet
    /\ MemQuiet /\ ParamQuiet /\ RegQuiet /\ ClusterQuiet /\ QuiesceQuiet /\ TipQuiet
    /\ ticker_interval = 1
    /\ tk = TkIdle
    /\ TickerThreadQuiet
    /\ g_stats \in GStatSamples
    /\ ns_stats \in [TickerNamespaces -> NsStatSamples]
    /\ ns_lines = [ns \in TickerNamespaces |-> {}]

SpecTickerLines == InitTickerLines /\ [][NextTickerThread]_vars

\* This step writes the namespace lines of a frame.
FrameWritten == ticker.pc = "rest" /\ ticker'.pc = "sleep"

\* At least one of the counters is not zero.
NonZero(counters) == \E i \in DOMAIN counters : counters[i] # 0

MigrationsLines == {"migrations: remaining", "migrations: complete"}

\* The lines that are written only on counters: none of them is in the
\* frame of a namespace unless one of its counters is not zero.
CounterLinesOnlyNonZero(lines, st) ==
    /\ "tombstones" \in lines => NonZero(st.tombstones)
    /\ "appeals" \in lines => NonZero(st.appeals)
    /\ \A line \in TxnLines : line \in lines => NonZero(st.txn[line])
    /\ "dup-res" \in lines => NonZero(st.dup_res)
    /\ "retransmits" \in lines => NonZero(st.retransmits)
    /\ "re-repl" \in lines => NonZero(st.re_repl)
    /\ "special-errors" \in lines => NonZero(st.special_errors)

\* C40: in every ticker frame and for every namespace, the objects line is
\* always emitted and every other namespace-scoped line (tombstones,
\* appeals, migrations, per-origin transaction counters, dup-res,
\* retransmits, re-repl, special-errors) is emitted only if at least one of
\* its counters is non-zero.
C40_LineSuppression ==
    [][FrameWritten =>
          \A ns \in TickerNamespaces :
              /\ "objects" \in ns_lines'[ns]
              /\ CounterLinesOnlyNonZero(ns_lines'[ns], ns_stats[ns])
              /\ ns_lines'[ns] \cap MigrationsLines # {} => NonZero(ns_stats[ns].migrate)]_vars

\* C40, amended: in every ticker frame and for every namespace, the
\* objects, migrations and memory-usage lines are always emitted, the
\* migrations line reading "complete" unless partitions both were to
\* migrate and remain to migrate; each of the tombstones, appeals,
\* per-origin transaction, dup-res, retransmits, re-repl and special-errors
\* lines is emitted only if at least one of its counters is non-zero.
C40_LineSuppressionButMigrations ==
    [][FrameWritten =>
          \A ns \in TickerNamespaces :
              LET st == ns_stats[ns]
                  moving == st.migrate[1] + st.migrate[2] > 0
                                /\ st.migrate[3] + st.migrate[4] > 0
              IN /\ {"objects", "memory-usage"} \subseteq ns_lines'[ns]
                 /\ ns_lines'[ns] \cap MigrationsLines =
                        {IF moving THEN "migrations: remaining" ELSE "migrations: complete"}
                 /\ CounterLinesOnlyNonZero(ns_lines'[ns], st)]_vars

\* A frame was written for a namespace whose counters are all zero, with
\* the three lines that are always there, next to a namespace with
\* tombstones.
C40_Witness ==
    /\ ticker.pc = "sleep"
    /\ ns_stats[1] = ZeroNsStats
    /\ ns_lines[1] = {"objects", "migrations: complete", "memory-usage"}
    /\ NonZero(ns_stats[2].tombstones)
    /\ "tombstones" \in ns_lines[2]
====
